---- MODULE Spec2Model ----
(***************************************************************************)
(* A model of qexpy's Plot object (src/qexpy/plotting.py): the scene that  *)
(* collects datasets, user functions and display settings, and the two     *)
(* renderers that draw it.                                                 *)
(*                                                                         *)
(* Numbers.  Every length on an axis is an integer count of half units, so *)
(* the margin 0.5 is 1 and the y value 12.5 is 25.  An array sampled on an *)
(* n-point grid holds the numerators of its values over n-1, which keeps   *)
(* np.linspace and the affine functions evaluated on it exact.             *)
(***************************************************************************)
EXTENDS Integers, Sequences, FiniteSets, TLC

----------------------------------------------------------------------------
(* Bounds of the model *)

MaxDatasets == 2
MaxFunctions == 2
MaxFits == 1
MaxPaletteCalls == 36
MaxRenders == 2

(* Program constants *)

x_range_margin == 1
y_range_margin == 1
PaletteLen == 17
NSample == 100

----------------------------------------------------------------------------
(* Python values *)

\* The absent argument (None) of a colour or name parameter.
None == "None"

\* The attribute that has not been assigned yet (hasattr(self, ...) is False).
Undefined == <<>>

Min2(a, b) == IF a < b THEN a ELSE b

\* seq[index] with Python's indexing: a negative index counts from the end;
\* 0 stands for the IndexError of an index outside the list.
PyIndex(seq, index) ==
    LET pos == IF index < 0 THEN Len(seq) + index + 1 ELSE index + 1
    IN  IF pos \in 1..Len(seq) THEN pos ELSE 0

\* A colour: an entry of the palette, a colour the caller named, or the
\* absent colour argument.
PaletteColor(i) == [palette |-> TRUE, i |-> i]
UserColor == [palette |-> FALSE, i |-> 0]
NoColor == [palette |-> FALSE, i |-> -1]

----------------------------------------------------------------------------
(* The datasets (XYDataSet objects, referenced by identity) *)

DatasetIds == {"d1", "d2"}

\* The extremes of a dataset's x and y data.
XExtent(d) == IF d = "d1" THEN <<0, 20>> ELSE <<-4, 8>>
YExtent(d) == IF d = "d1" THEN <<0, 10>> ELSE <<-6, 4>>

\* The extremes of the residuals of a dataset's n-th fit.
YresExtent(d, n) ==
    IF d = "d1" THEN <<-6 - (n - 1), 6 + (n - 1)>>
                ELSE <<-2 - (n - 1), 2 + (n - 1)>>

XAxisName(d) == IF d = "d1" THEN <<"time", "s">> ELSE <<"length", "m">>
YAxisName(d) == IF d = "d1" THEN <<"speed", "m/s">> ELSE <<"force", "N">>
DefaultName(d) == IF d = "d1" THEN "dataset1" ELSE "dataset2"

get_x_range(d, margin) == <<XExtent(d)[1] - margin, XExtent(d)[2] + margin>>
get_y_range(d, margin) == <<YExtent(d)[1] - margin, YExtent(d)[2] + margin>>
get_yres_range(d, n, margin) ==
    <<YresExtent(d, n)[1] - margin, YresExtent(d, n)[2] + margin>>

----------------------------------------------------------------------------
(* Functions, parameters and arrays *)

\* f(x) = a*x + b, taking no parameters, and f(x, p0, p1) = p0 + p1*x.
Fx(a, b) == [kind |-> "fx", a |-> a, b |-> b]
Fxp == [kind |-> "fxp", a |-> 0, b |-> 0]
\* A function whose evaluation raises, whatever it is called with.
Fraises == [kind |-> "raises", a |-> 0, b |-> 0]

NoPars == [kind |-> "none", v |-> <<>>]
ListPars(p0, p1) == [kind |-> "list", v |-> <<[mean |-> p0, std |-> 0], [mean |-> p1, std |-> 0]>>]
MeasurementArrayPars(m0, s0, m1, s1) ==
    [kind |-> "marray", v |-> <<[mean |-> m0, std |-> s0], [mean |-> m1, std |-> s1]>>]
\* Anything else: a number, a string, a dict.
BadPars == [kind |-> "other", v |-> <<>>]

\* np.linspace(lo, hi, n): numerators over n-1.
linspace(lo, hi, n) == [i \in 1..n |-> lo * (n - 1) + (i - 1) * (hi - lo)]

\* function(xvals) or function(xvals, *pars): the values (the means, for
\* parameters that carry an uncertainty), numerators over n-1.
CallFunction(function, xvals, pars) ==
    LET n == Len(xvals)
    IN  IF function.kind = "fx"
        THEN [i \in 1..n |-> function.a * xvals[i] + function.b * (n - 1)]
        ELSE [i \in 1..n |-> pars.v[1].mean * (n - 1) + pars.v[2].mean * xvals[i]]

\* arr.max() and arr.min(), over the elements lo..hi of the array.
RECURSIVE max_between(_, _, _)
max_between(arr, lo, hi) ==
    IF lo = hi THEN arr[lo]
    ELSE LET mid == (lo + hi) \div 2
             left == max_between(arr, lo, mid)
             right == max_between(arr, mid + 1, hi)
         IN  IF left > right THEN left ELSE right
RECURSIVE min_between(_, _, _)
min_between(arr, lo, hi) ==
    IF lo = hi THEN arr[lo]
    ELSE LET mid == (lo + hi) \div 2
             left == min_between(arr, lo, mid)
             right == min_between(arr, mid + 1, hi)
         IN  IF left < right THEN left ELSE right

ArrayMax(arr) == max_between(arr, 1, Len(arr))
ArrayMin(arr) == min_between(arr, 1, Len(arr))

\* A value of an n-point array, back in half units (exact for the affine
\* functions of the model, whose extremes lie on the grid's end points).
Value(num, n) == num \div (n - 1)

----------------------------------------------------------------------------
(* The state *)

VARIABLES
    color_count,              \* Plot.color_count
    datasets,                 \* Plot.datasets: a list of dataset ids
    datasets_colors,          \* Plot.datasets_colors
    user_functions,           \* Plot.user_functions
    user_functions_pars,      \* Plot.user_functions_pars
    user_functions_names,     \* Plot.user_functions_names
    user_functions_colors,    \* Plot.user_functions_colors
    user_functions_count,     \* Plot.user_functions_count
    x_range, y_range,         \* Plot.x_range, Plot.y_range: <<min, max>>
    range_numeric,            \* whether the elements of each range are numbers
    yres_range,               \* Plot.yres_range, Undefined until first set
    show_residuals,           \* Plot.show_residuals
    initialized_from_dataset, \* Plot.initialized_from_dataset
    labels,                   \* Plot.labels
    errorband_sigma,          \* Plot.errorband_sigma
    show_fit_results,         \* Plot.show_fit_results
    nfits,                    \* dataset.nfits of every dataset
    ds_name,                  \* dataset.name of every dataset
    call,                     \* the last call made and how it ended
    palette_calls,            \* how many colours the palette has handed out
    last_color,               \* the palette entry handed out last
    y_base,                   \* y_range when the current run of add_function calls began
    fn_log,                   \* the sampled extremes of each function added since
    plot_engine,              \* qexpy.plot_engine
    in_notebook,              \* what qexpy.utils.in_notebook() returns
    output_notebook_called,   \* qu.mpl_ouput_notebook_called, qu.bokeh_ouput_notebook_called
    figs,                     \* the figures the backends have made, a handle being an index
    mplfigure, mpl_gs,        \* Plot.mplfigure, Plot.mpl_gs: 0 until the attribute is set
    bkfigure, bkres,          \* Plot.bkfigure, Plot.bkres: 0 until the attribute is set
    plt_current,              \* pyplot's current figure and subplot
    renders,                  \* how many times show has populated a figure
    outputs,                  \* what the last show call saved and displayed, in order
    minmax_n,                 \* qexpy.Measurement.minmax_n
    linear_fit,               \* Plot.linear_fit_line, _patches, _pars and _corr
    interact,                 \* the update callbacks the notebook's controls drive
    fn_grids,                 \* for each user function, the grid add_function
                              \* sampled it on and y_range as the call left it
    y_range_extra,            \* what has been added to Plot.y_range[1] and not
                              \* taken back, a numerator over the figure's height
    linear_fit_history        \* whether a call has fitted the last dataset to a
                              \* line, and whether one has then drawn and kept the
                              \* fit's line and band, since the plot was made

sceneVars == <<color_count, datasets, datasets_colors, user_functions,
               user_functions_pars, user_functions_names, user_functions_colors,
               user_functions_count, x_range, y_range, range_numeric, yres_range,
               show_residuals, initialized_from_dataset, labels, errorband_sigma,
               show_fit_results>>
datasetVars == <<nfits, ds_name>>
observerVars == <<call, palette_calls, last_color, y_base, fn_log>>
environmentVars == <<plot_engine, in_notebook, output_notebook_called>>
figureVars == <<figs, mplfigure, mpl_gs, bkfigure, bkres, plt_current>>
explorerVars == <<linear_fit, interact, linear_fit_history>>
plotBackendVars == <<environmentVars, figureVars, outputs, renders, explorerVars,
                     y_range_extra>>
backendVars == <<plotBackendVars, minmax_n, fn_grids>>
vars == <<sceneVars, datasetVars, observerVars, backendVars>>

\* A call: the operation, how it ended ("ok" or the exception raised), its
\* arguments where a property reads them, and the messages it printed.
Call(op, ret, args, printed) == [op |-> op, ret |-> ret, args |-> args, printed |-> printed]

----------------------------------------------------------------------------
(* Helpers of Plot *)

\* Plot._get_color_from_palette: the new cursor and the palette index read;
\* the index is -1 when it lies outside the palette (an IndexError).
get_color_from_palette_no_wrap(count) ==
    [count |-> count + 1,
     color |-> IF count \in 0..(PaletteLen - 1) THEN count ELSE -1]

get_color_from_palette_early_wrap(count) ==
    LET c == IF count + 1 >= PaletteLen THEN 1 ELSE count + 1
    IN  [count |-> c, color |-> IF c - 1 \in 0..(PaletteLen - 1) THEN c - 1 ELSE -1]

get_color_from_palette(count) ==
    LET c == IF count + 1 > PaletteLen THEN 1 ELSE count + 1
    IN  [count |-> c, color |-> IF c - 1 \in 0..(PaletteLen - 1) THEN c - 1 ELSE -1]

\* Plot.set_yres_range_from_fits: the loop over the datasets, each fitted one
\* overwriting the range.
RECURSIVE yres_loop(_, _, _, _)
yres_loop(ds, nf, i, current) ==
    IF i > Len(ds) THEN current
    ELSE yres_loop(ds, nf, i + 1,
                   IF nf[ds[i]] > 0
                   THEN get_yres_range(ds[i], nf[ds[i]], y_range_margin)
                   ELSE current)

set_yres_range_from_fits(ds, nf, current) == yres_loop(ds, nf, 1, current)

\* The labels Plot.initialize_from_dataset builds from a dataset.
LabelsFrom(title, dataset) ==
    [title |-> title, xtitle |-> XAxisName(dataset), ytitle |-> YAxisName(dataset)]

DefaultLabels ==
    [title |-> "y as a function of x", xtitle |-> <<"x", "">>, ytitle |-> <<"y", "">>]

----------------------------------------------------------------------------
(* Construction *)

\* Plot.__init__(dataset), the datasets having the fit counts nf.
Plot(dataset, nf) ==
    /\ nfits = nf
    /\ ds_name = [d \in DOMAIN nf |-> DefaultName(d)]
    /\ user_functions_count = 0
    /\ user_functions = <<>>
    /\ user_functions_pars = <<>>
    /\ user_functions_names = <<>>
    /\ user_functions_colors = <<>>
    /\ show_residuals = FALSE
    /\ errorband_sigma = 1
    /\ show_fit_results = TRUE
    /\ range_numeric = [x |-> TRUE, y |-> TRUE]
    /\ IF dataset # None
       THEN LET pal == get_color_from_palette(0)
            IN  /\ datasets = <<dataset>>
                /\ color_count = pal.count
                /\ datasets_colors = <<PaletteColor(pal.color)>>
                /\ palette_calls = 1
                /\ last_color = pal.color
                /\ labels = LabelsFrom(DefaultName(dataset), dataset)
                /\ x_range = get_x_range(dataset, x_range_margin)
                /\ y_range = get_y_range(dataset, y_range_margin)
                /\ yres_range = set_yres_range_from_fits(<<dataset>>, nf, Undefined)
                /\ initialized_from_dataset = TRUE
       ELSE /\ datasets = <<>>
            /\ color_count = 0
            /\ datasets_colors = <<>>
            /\ palette_calls = 0
            /\ last_color = -1
            /\ labels = DefaultLabels
            /\ x_range = <<0, 2>>
            /\ y_range = <<0, 2>>
            /\ yres_range = Undefined
            /\ initialized_from_dataset = FALSE
    /\ call = Call("Plot", "ok", <<dataset>>, <<>>)
    /\ y_base = y_range
    /\ fn_log = <<>>

----------------------------------------------------------------------------
(* Operations of the scene *)

\* How Plot.add_dataset widens a range of the plot to take in the range of
\* the dataset it adds.
widen_range_overwrite(current, new) == new

widen_range(current, new) ==
    <<IF new[1] < current[1] THEN new[1] ELSE current[1],
      IF new[2] > current[2] THEN new[2] ELSE current[2]>>

\* Plot.add_dataset(dataset, color, name)
add_dataset(dataset, color, name) ==
    LET ds1 == Append(datasets, dataset)
        first == Len(ds1) < 2
        \* initialize_from_dataset, for the first dataset only
        xr1 == IF first THEN get_x_range(dataset, x_range_margin) ELSE x_range
        yr1 == IF first THEN get_y_range(dataset, y_range_margin) ELSE y_range
        num1 == IF first THEN [x |-> TRUE, y |-> TRUE] ELSE range_numeric
        yres1 == IF first THEN set_yres_range_from_fits(ds1, nfits, yres_range)
                          ELSE yres_range
        pal == get_color_from_palette(color_count)
        palette_raises == color = NoColor /\ pal.color = -1
        \* the widening of the ranges
        xr == get_x_range(dataset, x_range_margin)
        yr == get_y_range(dataset, y_range_margin)
        xr2 == widen_range(xr1, xr)
        yr2 == widen_range(yr1, yr)
        x_raises == ~palette_raises /\ ~num1.x
        y_raises == ~palette_raises /\ num1.x /\ ~num1.y
        done == ~palette_raises /\ num1.x /\ num1.y
    IN  /\ datasets' = ds1
        /\ labels' = IF first THEN LabelsFrom(ds_name[dataset], dataset) ELSE labels
        /\ initialized_from_dataset' = (first \/ initialized_from_dataset)
        /\ range_numeric' = num1
        /\ color_count' = IF color = NoColor THEN pal.count ELSE color_count
        /\ palette_calls' = IF color = NoColor THEN palette_calls + 1 ELSE palette_calls
        /\ last_color' = IF color = NoColor THEN pal.color ELSE last_color
        /\ datasets_colors' =
              IF palette_raises THEN datasets_colors
              ELSE Append(datasets_colors,
                          IF color = NoColor THEN PaletteColor(pal.color) ELSE color)
        /\ ds_name' = IF ~palette_raises /\ name # None
                      THEN [ds_name EXCEPT ![dataset] = name] ELSE ds_name
        /\ x_range' = IF palette_raises \/ x_raises THEN xr1 ELSE xr2
        /\ y_range' = IF done THEN yr2 ELSE yr1
        /\ yres_range' = IF done THEN set_yres_range_from_fits(ds1, nfits, yres1)
                                 ELSE yres1
        /\ call' = Call("add_dataset",
                        IF palette_raises THEN "IndexError"
                        ELSE IF done THEN "ok" ELSE "TypeError",
                        <<dataset>>, <<>>)
        /\ y_base' = y_range'
        /\ fn_log' = <<>>
        /\ UNCHANGED <<user_functions, user_functions_pars, user_functions_names,
                       user_functions_colors, user_functions_count, show_residuals,
                       errorband_sigma, show_fit_results, nfits, backendVars>>

\* The y range after Plot.add_function has sampled a function with the
\* extremes fmin and fmax (margin included).
widen_y_last_write_wins(range, fmin, fmax) == <<Min2(range[1], fmin), fmax>>

widen_y(range, fmin, fmax) ==
    <<IF fmin < range[1] THEN fmin ELSE range[1],
      IF fmax > range[2] THEN fmax ELSE range[2]>>

\* What Plot.add_function does with parameters of a format it does not
\* recognize: it prints a message and returns.
report_unrecognized_and_go_on ==
    [ret |-> "NameError", printed |-> <<"Error: Not a recognized format for parameter">>]

report_unrecognized ==
    [ret |-> "ok", printed |-> <<"Error: Not a recognized format for parameter">>]

\* Plot.add_function(function, pars, name, color)
add_function(function, pars, name, color) ==
    LET xvals == linspace(x_range[1], x_range[2], NSample)
        recognized == pars.kind \in {"none", "marray", "list"}
        fvals == CallFunction(function, xvals, pars)
        fmax == Value(ArrayMax(fvals), NSample) + y_range_margin
        fmin == Value(ArrayMin(fvals), NSample) - y_range_margin
        pal == get_color_from_palette(color_count)
        palette_raises == color = NoColor /\ pal.color = -1
        fname == IF name = None THEN <<"userf", user_functions_count>> ELSE <<name>>
        raised == range_numeric.x /\ recognized /\ function.kind = "raises"
    IN  /\ UNCHANGED plotBackendVars
        \* minmax_n is set to 1 before the call of the function and set back
        \* after it, in the Measurement_Array branch
        /\ minmax_n' = IF raised /\ pars.kind = "marray" THEN 1 ELSE minmax_n
        /\ IF ~range_numeric.x
           THEN \* np.linspace fails on a range that does not hold numbers
                /\ call' = Call("add_function", "TypeError", <<pars.kind>>, <<>>)
                /\ UNCHANGED <<sceneVars, datasetVars, palette_calls, last_color,
                               y_base, fn_log, fn_grids>>
           ELSE IF ~recognized
           THEN /\ call' = Call("add_function", report_unrecognized.ret, <<pars.kind>>,
                                report_unrecognized.printed)
                /\ UNCHANGED <<sceneVars, datasetVars, palette_calls, last_color,
                               y_base, fn_log, fn_grids>>
           ELSE IF raised
           THEN \* the exception of function(xvals, ...) ends add_function
                /\ call' = Call("add_function", "ZeroDivisionError", <<pars.kind>>, <<>>)
                /\ UNCHANGED <<sceneVars, datasetVars, palette_calls, last_color,
                               y_base, fn_log, fn_grids>>
           ELSE IF ~range_numeric.y
           THEN \* fmax > self.y_range[1] compares a number with a non-number
                /\ call' = Call("add_function", "TypeError", <<pars.kind>>, <<>>)
                /\ UNCHANGED <<sceneVars, datasetVars, palette_calls, last_color,
                               y_base, fn_log, fn_grids>>
           ELSE /\ y_range' = widen_y(y_range, fmin, fmax)
                /\ user_functions' = Append(user_functions, function)
                /\ user_functions_pars' = Append(user_functions_pars, pars)
                /\ user_functions_names' = Append(user_functions_names, fname)
                /\ user_functions_count' = user_functions_count + 1
                /\ color_count' = IF color = NoColor THEN pal.count ELSE color_count
                /\ palette_calls' = IF color = NoColor THEN palette_calls + 1
                                                       ELSE palette_calls
                /\ last_color' = IF color = NoColor THEN pal.color ELSE last_color
                /\ user_functions_colors' =
                      IF palette_raises THEN user_functions_colors
                      ELSE Append(user_functions_colors,
                                  IF color = NoColor THEN PaletteColor(pal.color)
                                                     ELSE color)
                /\ call' = Call("add_function",
                                IF palette_raises THEN "IndexError" ELSE "ok",
                                <<pars.kind>>, <<>>)
                /\ fn_log' = Append(fn_log, [fmin |-> fmin, fmax |-> fmax])
                /\ fn_grids' = Append(fn_grids,
                                      [grid |-> <<xvals[1], xvals[NSample], NSample>>,
                                       y_range |-> y_range'])
                /\ UNCHANGED <<datasets, datasets_colors, x_range, range_numeric,
                               yres_range, show_residuals, initialized_from_dataset,
                               labels, errorband_sigma, show_fit_results, datasetVars,
                               y_base>>

\* Plot.fit(datasetindex=...): fits the dataset at that index of the list.
fit(datasetindex) ==
    LET pos == PyIndex(datasets, datasetindex)
    IN  /\ nfits' = IF pos = 0 THEN nfits
                    ELSE [nfits EXCEPT ![datasets[pos]] = @ + 1]
        /\ call' = Call("fit", IF pos = 0 THEN "IndexError" ELSE "ok",
                        <<datasetindex>>, <<>>)
        /\ UNCHANGED <<sceneVars, ds_name, palette_calls, last_color, y_base, fn_log,
                       backendVars>>

\* Which dataset decides whether Plot.add_residuals shows the residuals: the
\* position in the list of the dataset whose fit count it reads, 0 for none.
residuals_deciding_dataset(ds) == PyIndex(ds, -1)

\* Plot.add_residuals()
add_residuals ==
    LET pos == residuals_deciding_dataset(datasets)
    IN  /\ yres_range' = set_yres_range_from_fits(datasets, nfits, yres_range)
        /\ show_residuals' = IF pos # 0 /\ nfits[datasets[pos]] > 0
                             THEN TRUE ELSE show_residuals
        /\ call' = Call("add_residuals", IF pos = 0 THEN "IndexError" ELSE "ok",
                        <<>>, <<>>)
        /\ UNCHANGED <<color_count, datasets, datasets_colors, user_functions,
                       user_functions_pars, user_functions_names,
                       user_functions_colors, user_functions_count, x_range,
                       y_range, range_numeric, initialized_from_dataset, labels,
                       errorband_sigma, show_fit_results, datasetVars,
                       palette_calls, last_color, y_base, fn_log, backendVars>>

\* qexpy.utils.array_types, the types Plot.set_plot_range takes for a range.
ARRAY == {"list", "tuple", "ndarray"}

\* An argument of set_plot_range: its Python type, its elements, and whether
\* the elements are numbers.
RangeArg(type, numeric, val) == [type |-> type, numeric |-> numeric, val |-> val]
NoRange == RangeArg("NoneType", FALSE, <<>>)

\* The test Plot.set_plot_range makes before it stores an argument.
range_accepted(arg) == arg.type \in ARRAY /\ Len(arg.val) = 2

\* Plot.set_plot_range(x_range, y_range)
set_plot_range(x_arg, y_arg) ==
    LET x_ok == range_accepted(x_arg)
        y_ok == range_accepted(y_arg)
        x_msg == IF ~x_ok /\ x_arg # NoRange THEN <<"X range must be a list">> ELSE <<>>
        y_msg == IF ~y_ok /\ y_arg # NoRange THEN <<"Y range must be a list">> ELSE <<>>
    IN  /\ x_range' = IF x_ok THEN x_arg.val ELSE x_range
        /\ y_range' = IF y_ok THEN y_arg.val ELSE y_range
        /\ range_numeric' = [x |-> IF x_ok THEN x_arg.numeric ELSE range_numeric.x,
                             y |-> IF y_ok THEN y_arg.numeric ELSE range_numeric.y]
        /\ call' = Call("set_plot_range", "ok", <<x_arg, y_arg>>, x_msg \o y_msg)
        /\ y_base' = y_range'
        /\ fn_log' = <<>>
        /\ UNCHANGED <<color_count, datasets, datasets_colors, user_functions,
                       user_functions_pars, user_functions_names,
                       user_functions_colors, user_functions_count, yres_range,
                       show_residuals, initialized_from_dataset, labels,
                       errorband_sigma, show_fit_results, datasetVars,
                       palette_calls, last_color, backendVars>>

----------------------------------------------------------------------------
(* Inputs *)

\* Constant functions with the values 12 and 7, a falling line, and a line
\* whose offset and slope are parameters.
ConstantFunctions == {<<Fx(0, 24), NoPars>>, <<Fx(0, 14), NoPars>>}
FunctionInputs ==
    ConstantFunctions \cup
    {<<Fx(-1, 0), NoPars>>, <<Fxp, ListPars(2, 1)>>,
     <<Fxp, MeasurementArrayPars(-8, 1, 1, 1)>>}

\* Arguments of set_plot_range: absent, a list of two numbers, a list of
\* three, a bare number, and a list of two strings.
NumericRangeInputs ==
    {NoRange,
     RangeArg("list", TRUE, <<0, 10>>),
     RangeArg("list", TRUE, <<2, 4, 6>>),
     RangeArg("int", TRUE, <<>>)}
RangeInputs == NumericRangeInputs \cup {RangeArg("list", FALSE, <<0, 0>>)}

\* The fit counts the datasets may have when the plot is made.
InitialFits == [DatasetIds -> {0, 1}]

\* Measurement.minmax_n as qexpy sets it, and as a session may have set it.
minmax_n_default == 100
minmax_n_values == {1, minmax_n_default}

\* The attributes bk_show_linear_fit keeps for bk_interact_linear_fit: the
\* figure and the positions on it of the line and of the patches, the fit
\* parameters and their correlation; none of them set on a new plot.
NoLinearFit == [set |-> FALSE, fig |-> 0, line |-> 0, patches |-> 0,
                pars |-> NoPars, corr |-> 0]

\* No update callback is registered; mpl names the dataset, the colour and
\* the parameters the matplotlib callback closes over.
NoInteract == [bk |-> FALSE, mpl |-> <<>>]

\* The session in which the plot is made: the plot engine chosen, whether it
\* runs in a notebook, and no figure made yet.
Session(engine, notebook) ==
    /\ plot_engine = engine
    /\ in_notebook = notebook
    /\ output_notebook_called = [mpl |-> FALSE, bokeh |-> FALSE]
    /\ figs = <<>>
    /\ mplfigure = 0 /\ mpl_gs = 0 /\ bkfigure = 0 /\ bkres = 0
    /\ plt_current = [fig |-> 0, panel |-> "main"]
    /\ outputs = <<>>
    /\ renders = 0
    /\ linear_fit = NoLinearFit
    /\ y_range_extra = 0
    /\ fn_grids = <<>>
    /\ interact = NoInteract
    /\ linear_fit_history = [fitted |-> FALSE, drawn |-> FALSE]

Init ==
    /\ \E dataset \in DatasetIds \cup {None}, nf \in InitialFits : Plot(dataset, nf)
    /\ Session("bokeh", TRUE)
    /\ minmax_n = minmax_n_default

\* The plot made before any dataset has been fitted.
InitUnfitted ==
    /\ \E dataset \in DatasetIds \cup {None} : Plot(dataset, [d \in DatasetIds |-> 0])
    /\ Session("bokeh", TRUE)
    /\ minmax_n = minmax_n_default

----------------------------------------------------------------------------
(* The additive operations: datasets, functions, fits and residuals *)

AddDataset ==
    /\ Len(datasets) < MaxDatasets
    /\ \E d \in DatasetIds : add_dataset(d, NoColor, None)

AddFunction ==
    /\ Len(user_functions) < MaxFunctions
    /\ \E fp \in FunctionInputs : add_function(fp[1], fp[2], None, NoColor)

Fit ==
    \E index \in {-1, 0} :
        /\ PyIndex(datasets, index) # 0 =>
               nfits[datasets[PyIndex(datasets, index)]] < MaxFits
        /\ fit(index)

AddResiduals == add_residuals

NextAttach == AddDataset \/ AddFunction \/ Fit \/ AddResiduals
SpecAttach == Init /\ [][NextAttach]_vars

----------------------------------------------------------------------------
(* The scene's settings: ranges, functions with and without a colour, and
   parameters add_function does not recognize *)

AddColoredFunction ==
    /\ Len(user_functions) < MaxFunctions
    /\ \E fp \in ConstantFunctions, c \in {NoColor, UserColor} :
          add_function(fp[1], fp[2], None, c)

AddFunctionBadPars == \E c \in {NoColor, UserColor} : add_function(Fxp, BadPars, None, c)

SetPlotRange ==
    \E x_arg \in {NoRange, RangeArg("list", TRUE, <<0, 10>>)},
       y_arg \in NumericRangeInputs :
        set_plot_range(x_arg, y_arg)

Next == AddDataset \/ AddColoredFunction \/ AddFunctionBadPars \/ SetPlotRange
Spec == InitUnfitted /\ [][Next]_vars

----------------------------------------------------------------------------
(* The palette: many colours handed out to datasets and functions *)

PaletteAddDataset ==
    /\ Len(datasets) < MaxDatasets
    /\ palette_calls < MaxPaletteCalls
    /\ add_dataset("d1", NoColor, None)

PaletteAddFunction ==
    /\ palette_calls < MaxPaletteCalls
    /\ \E c \in IF Len(user_functions) < MaxFunctions THEN {NoColor, UserColor}
                                                      ELSE {NoColor} :
          add_function(Fx(0, 2), NoPars, None, c)

NextPalette == PaletteAddDataset \/ PaletteAddFunction
SpecPalette == InitUnfitted /\ [][NextPalette]_vars

----------------------------------------------------------------------------
(* Ranges of any kind given to set_plot_range, and what follows *)

SetAnyPlotRange ==
    \E x_arg \in RangeInputs, y_arg \in RangeInputs : set_plot_range(x_arg, y_arg)

RangeAddDataset ==
    /\ Len(datasets) < MaxDatasets
    /\ add_dataset("d2", NoColor, None)

RangeAddFunction ==
    /\ Len(user_functions) < MaxFunctions
    /\ add_function(Fx(-1, 0), NoPars, None, NoColor)

NextRange == SetAnyPlotRange \/ RangeAddDataset \/ RangeAddFunction
SpecRange == InitUnfitted /\ [][NextRange]_vars

----------------------------------------------------------------------------
(* What the renderers read from a fitted dataset, and what they draw *)

dimensions == <<600, 400>>
NFitSample == 50

Abs(a) == IF a < 0 THEN -a ELSE a

\* dataset.fit_pars[-1] of a dataset fitted n times: the offset and the slope
\* of its linear fit, each a Measurement with a mean and a std.
FitPars(d, n) ==
    IF d = "d1" THEN MeasurementArrayPars(5, n, 0, 1)
                ELSE MeasurementArrayPars(-2, n + 1, 1, 1)

\* dataset.fit_npars[-1]
FitNpars(d, n) == Len(FitPars(d, n).v)

\* function(xvals, *pars).get_stds(): the standard deviations qexpy propagates
\* to the values, numerators over n-1.
CallFunctionStds(function, xvals, pars) ==
    LET n == Len(xvals)
    IN  [i \in 1..n |-> pars.v[1].std * (n - 1) + pars.v[2].std * Abs(xvals[i])]

\* Something drawn on a figure.  type is "points", "residuals", "line",
\* "band" or "text"; panel is "main" or "residuals"; a line and a band carry
\* the grid <<first, last, points>> they were sampled on and the sampled
\* arrays; a text line carries its offset.
Element(type, panel, name, color) ==
    [type |-> type, panel |-> panel, name |-> name, color |-> color,
     grid |-> <<>>, mean |-> <<>>, std |-> <<>>, lower |-> <<>>, upper |-> <<>>,
     factor |-> 0, offset |-> 0]

Line(panel, name, color, xvals, fvals) ==
    [Element("line", panel, name, color) EXCEPT
        !.grid = <<xvals[1], xvals[Len(xvals)], Len(xvals)>>, !.mean = fvals]

Band(panel, name, color, xvals, fvals, ferr, fmin, fmax, errorbandfactor) ==
    [Element("band", panel, name, color) EXCEPT
        !.grid = <<xvals[1], xvals[Len(xvals)], Len(xvals)>>,
        !.mean = fvals, !.std = ferr,
        !.lower = fmin, !.upper = fmax, !.factor = errorbandfactor]

Text(panel, name, offset) ==
    [Element("text", panel, name, NoColor) EXCEPT !.offset = offset]

\* A figure of a backend.  y_extra is what bokeh's main figure adds to the top
\* of its y range, a numerator over the figure's height in pixels; children
\* are the figures a bokeh gridplot stacks.
Figure(backend, role, xr, yr, y_extra, residual_panel, yresr) ==
    [backend |-> backend, role |-> role, x_range |-> xr, y_range |-> yr,
     y_extra |-> y_extra, residual_panel |-> residual_panel,
     yres_range |-> yresr, elements |-> <<>>, legend |-> FALSE,
     children |-> <<>>]

\* The state a render works on, and the exception that ended it ("ok" while
\* none has).
RenderContext ==
    [figs |-> figs, mplfigure |-> mplfigure, mpl_gs |-> mpl_gs,
     bkfigure |-> bkfigure, bkres |-> bkres, cur |-> plt_current,
     show_residuals |-> show_residuals, legend_offset |-> 0,
     x_range |-> x_range, y_range |-> y_range, y_extra |-> y_range_extra,
     minmax_n |-> minmax_n,
     out |-> <<>>, exc |-> "ok"]

Raise(R, exception) == [R EXCEPT !.exc = exception]

\* A draw call on the figure with that handle.
Draw(R, handle, element) ==
    [R EXCEPT !.figs[handle].elements = Append(@, element)]

\* plt.subplot(self.mpl_gs[k])
subplot(R, panel) == [R EXCEPT !.cur.panel = panel]

----------------------------------------------------------------------------
(* The matplotlib renderer *)

\* The next step of a render, taken unless an exception has ended it.
Then(R, step(_)) == IF R.exc # "ok" THEN R ELSE step(R)

\* np.linspace(min(xdata), max(xdata), n)
sample_grid(xdata, n) ==
    linspace(Min2(xdata[1], xdata[2]),
             IF xdata[1] > xdata[2] THEN xdata[1] ELSE xdata[2], n)

\* Plot.initialize_mpl_figure(refresh)
initialize_mpl_figure(R, refresh) ==
    IF ~refresh /\ R.mplfigure # 0 /\ ~(R.show_residuals /\ R.mpl_gs = 0)
    THEN R
    ELSE LET handle == Len(R.figs) + 1
             fig == Figure("mpl", "main", x_range, y_range, 0, R.show_residuals,
                           IF R.show_residuals THEN yres_range ELSE Undefined)
             made == [R EXCEPT
                        !.figs = Append(@, fig),
                        !.mplfigure = handle,
                        !.mpl_gs = IF R.show_residuals THEN handle ELSE @,
                        !.cur = [fig |-> handle,
                                 panel |-> IF R.show_residuals THEN "residuals"
                                                               ELSE "main"]]
         IN  IF R.show_residuals /\ yres_range = Undefined
             THEN \* plt.axis reads self.yres_range, which was never assigned
                  Raise(made, "AttributeError")
             ELSE subplot(made, "main")

\* if not hasattr(self, 'mplfigure'): self.initialize_mpl_figure()
mpl_figure_made(R) == IF R.mplfigure = 0 THEN initialize_mpl_figure(R, TRUE) ELSE R

\* if hasattr(self, 'mpl_gs'): plt.subplot(self.mpl_gs[0])
mpl_main_panel(R) == IF R.mpl_gs # 0 THEN subplot(R, "main") ELSE R

\* The end of Plot.mpl_plot_function: plt.plot draws the values and, for
\* parameters that carry uncertainties, plt.fill_between the band between
\* fmin and fmax.
mpl_plot_values(R, pars, xvals, fvals, ferr, legend_name, color, errorbandfactor) ==
    IF pars.kind = "marray"
    THEN Draw(Draw(R, R.cur.fig, Line(R.cur.panel, legend_name, color, xvals, fvals)),
              R.cur.fig,
              Band(R.cur.panel, legend_name, color, xvals, fvals, ferr,
                   [i \in 1..Len(fvals) |-> fvals[i] - ferr[i]],
                   [i \in 1..Len(fvals) |-> fvals[i] + ferr[i]],
                   errorbandfactor))
    ELSE Draw(R, R.cur.fig, Line(R.cur.panel, legend_name, color, xvals, fvals))

\* The middle of Plot.mpl_plot_function: the function is evaluated on xvals.
mpl_evaluate(R, function, xvals, pars, legend_name, color, errorbandfactor) ==
    IF pars.kind \notin {"none", "marray", "list"}
    THEN \* the message is printed and plt.plot then reads fvals, unassigned
         Raise(R, "UnboundLocalError")
    ELSE IF function.kind = "raises"
    THEN \* for a Measurement_Array minmax_n was set to 1 before the call, and
         \* the line that sets it back is not reached
         [Raise(R, "ZeroDivisionError") EXCEPT
             !.minmax_n = IF pars.kind = "marray" THEN 1 ELSE @]
    ELSE mpl_plot_values(R, pars, xvals, CallFunction(function, xvals, pars),
                         CallFunctionStds(function, xvals, pars), legend_name, color,
                         errorbandfactor)

\* Plot.mpl_plot_function(function, xdata, pars, n, legend_name, color,
\* errorbandfactor)
mpl_plot_function(R, function, xdata, pars, n, legend_name, color, errorbandfactor) ==
    Then(mpl_figure_made(R),
         LAMBDA r : mpl_evaluate(mpl_main_panel(r), function, sample_grid(xdata, n),
                                 pars, legend_name, color, errorbandfactor))

\* Plot.mpl_plot_fit_results_text_box(dataset, yoffset): the text is placed
\* yoffset below the top of the box; what it returns becomes legend_offset.
\* Offsets are in thousandths of the height of the y range.
mpl_plot_fit_results_text_box(R, dataset, yoffset) ==
    Then(mpl_figure_made(R),
         LAMBDA r : [Draw(r, r.cur.fig, Text(r.cur.panel, <<dataset>>, yoffset))
                        EXCEPT !.legend_offset = FitNpars(dataset, nfits[dataset]) * 45])

\* The end of Plot.mpl_plot_dataset: the residuals of the dataset's last fit.
mpl_plot_residuals(R, dataset, color, show_res) ==
    IF R.show_residuals /\ R.mpl_gs # 0 /\ show_res
    THEN IF nfits[dataset] = 0
         THEN \* dataset.fit_yres[-1] of a dataset that has no fit
              Raise(subplot(R, "residuals"), "IndexError")
         ELSE subplot(Draw(R, R.cur.fig,
                           Element("residuals", "residuals", <<dataset>>, color)),
                      "main")
    ELSE R

\* Plot.mpl_plot_dataset(dataset, color, show_fit_function, show_residuals)
mpl_plot_dataset(R, dataset, color, show_fit_function, show_res) ==
    Then(Then(Then(IF R.mplfigure = 0
                   THEN initialize_mpl_figure(
                            [R EXCEPT !.show_residuals =
                                 IF show_res /\ nfits[dataset] > 0 THEN TRUE ELSE @],
                            TRUE)
                   ELSE R,
                   LAMBDA r : Draw(mpl_main_panel(r), r.cur.fig,
                                   Element("points", "main", <<dataset>>, color))),
              LAMBDA r : IF nfits[dataset] > 0 /\ show_fit_function
                         THEN mpl_plot_function(r, Fxp, XExtent(dataset),
                                                FitPars(dataset, nfits[dataset]),
                                                NFitSample, <<"linear">>, color,
                                                errorband_sigma)
                         ELSE r),
         LAMBDA r : mpl_plot_residuals(r, dataset, color, show_res))

\* The loop of Plot.populate_mpl_figure over the datasets, from the i-th on.
RECURSIVE mpl_datasets_loop(_, _)
mpl_datasets_loop(R, i) ==
    IF i > Len(datasets) \/ i > Len(datasets_colors) \/ R.exc # "ok" THEN R
    ELSE mpl_datasets_loop(
             Then(mpl_plot_dataset(R, datasets[i], datasets_colors[i], TRUE,
                                   R.show_residuals),
                  LAMBDA r : IF show_fit_results /\ nfits[datasets[i]] > 0
                             THEN mpl_plot_fit_results_text_box(r, datasets[i],
                                                                r.legend_offset)
                             ELSE r),
             i + 1)

\* The x data the renderers hand to the user functions.
user_functions_xdata == <<x_range[1] + x_range_margin, x_range[2] - x_range_margin>>

\* The loop of Plot.populate_mpl_figure over the user functions.
RECURSIVE mpl_functions_loop(_, _)
mpl_functions_loop(R, i) ==
    IF i > Len(user_functions) \/ i > Len(user_functions_colors) \/ R.exc # "ok" THEN R
    ELSE mpl_functions_loop(
             mpl_plot_function(R, user_functions[i], user_functions_xdata,
                               user_functions_pars[i], NSample,
                               user_functions_names[i], user_functions_colors[i],
                               errorband_sigma),
             i + 1)

\* Plot.populate_mpl_figure(refresh)
populate_mpl_figure(R, refresh) ==
    Then(mpl_functions_loop(mpl_datasets_loop(initialize_mpl_figure(R, refresh), 1), 1),
         LAMBDA r : [r EXCEPT !.figs[r.cur.fig].legend = TRUE])

----------------------------------------------------------------------------
(* The bokeh renderer *)

\* qexpy.plot_utils.bk_plot_dataset(figure, dataset, residual, color)
qpu_bk_plot_dataset(R, handle, dataset, residual, color) ==
    IF residual
    THEN Draw(R, handle, Element("residuals", "residuals", <<dataset>>, color))
    ELSE Draw(R, handle, Element("points", "main", <<dataset>>, color))

\* The end of qexpy.plot_utils.bk_plot_function: the line, and around it the
\* band of errorbandfactor standard deviations when the parameters carry them.
qpu_bk_plot_values(R, handle, pars, xvals, fvals, ferr, legend_name, color, errorbandfactor) ==
    IF pars.kind = "marray"
    THEN Draw(Draw(R, handle, Line("main", legend_name, color, xvals, fvals)),
              handle,
              Band("main", legend_name, color, xvals, fvals, ferr,
                   [i \in 1..Len(fvals) |-> fvals[i] - errorbandfactor * ferr[i]],
                   [i \in 1..Len(fvals) |-> fvals[i] + errorbandfactor * ferr[i]],
                   errorbandfactor))
    ELSE Draw(R, handle, Line("main", legend_name, color, xvals, fvals))

\* qexpy.plot_utils.bk_plot_function(figure, function, xdata, pars, n,
\* legend_name, color, errorbandfactor)
qpu_bk_plot_function(R, handle, function, xvals, pars, legend_name, color, errorbandfactor) ==
    qpu_bk_plot_values(R, handle, pars, xvals, CallFunction(function, xvals, pars),
                       CallFunctionStds(function, xvals, pars), legend_name, color,
                       errorbandfactor)

\* Plot.initialize_bokeh_figure(residuals)
initialize_bokeh_figure(R, residuals) ==
    IF ~residuals
    THEN [R EXCEPT
            !.figs = Append(@, Figure("bokeh", "main", R.x_range, R.y_range, R.y_extra,
                                      FALSE, Undefined)),
            !.bkfigure = Len(R.figs) + 1]
    ELSE \* self.set_yres_range_from_fits is named, not called
         IF yres_range = Undefined \/ R.bkfigure = 0
         THEN Raise(R, "AttributeError")
         ELSE [R EXCEPT
                 !.figs = Append(@, Figure("bokeh", "residuals",
                                           R.figs[R.bkfigure].x_range, yres_range,
                                           0, FALSE, yres_range)),
                 !.bkres = Len(R.figs) + 1]

\* if not hasattr(self, 'bkfigure'):
\*     self.bkfigure = self.initialize_bokeh_figure(residuals=False)
bk_figure_made(R) == IF R.bkfigure = 0 THEN initialize_bokeh_figure(R, FALSE) ELSE R

\* Plot.bk_plot_function(function, xdata, pars, n, legend_name, color,
\* errorbandfactor)
bk_plot_function(R, function, xdata, pars, n, legend_name, color, errorbandfactor) ==
    Then(bk_figure_made(R),
         LAMBDA r : qpu_bk_plot_function(r, r.bkfigure, function, sample_grid(xdata, n),
                                         pars, legend_name, color, errorbandfactor))

\* Plot.bk_plot_dataset(dataset, residual, color, show_fit_function)
bk_plot_dataset(R, dataset, residual, color, show_fit_function) ==
    IF residual
    THEN Then(IF R.bkfigure = 0 THEN initialize_bokeh_figure(R, TRUE) ELSE R,
              LAMBDA r : IF r.bkres = 0
                         THEN \* self.bkres was never assigned
                              Raise(r, "AttributeError")
                         ELSE IF nfits[dataset] = 0
                         THEN \* dataset.fit_yres[-1] of a dataset that has no fit
                              Raise(r, "IndexError")
                         ELSE qpu_bk_plot_dataset(r, r.bkres, dataset, TRUE, color))
    ELSE Then(Then(bk_figure_made(R),
                   LAMBDA r : qpu_bk_plot_dataset(r, r.bkfigure, dataset, FALSE, color)),
              LAMBDA r : IF nfits[dataset] > 0 /\ show_fit_function
                         THEN bk_plot_function(r, Fxp, XExtent(dataset),
                                               FitPars(dataset, nfits[dataset]),
                                               NFitSample, <<"linear">>, color,
                                               errorband_sigma)
                         ELSE r)

\* The loop of Plot.bk_plot_fit_results_text_box: one label per parameter,
\* each placed offset below the start, the offset growing by 18 pixels from
\* the second label on.
RECURSIVE bk_text_lines(_, _, _, _, _)
bk_text_lines(R, dataset, yoffset, offset, i) ==
    IF i >= FitNpars(dataset, nfits[dataset]) THEN [R EXCEPT !.legend_offset = offset]
    ELSE bk_text_lines(
             Draw(R, R.bkfigure,
                  Text("main", <<dataset>>,
                       yoffset + (IF i > 0 THEN offset + 18 ELSE offset))),
             dataset, yoffset, IF i > 0 THEN offset + 18 ELSE offset, i + 1)

\* Plot.bk_plot_fit_results_text_box(dataset, yoffset); what it returns
\* becomes legend_offset.
bk_plot_fit_results_text_box(R, dataset, yoffset) ==
    Then(bk_figure_made(R), LAMBDA r : bk_text_lines(r, dataset, yoffset, yoffset, 0))

\* What Plot.populate_bokeh_figure adds for a fitted dataset: the text box
\* and the residuals.
bk_plot_fit_results(R, dataset, color) ==
    Then(IF show_fit_results
         THEN Then(bk_plot_fit_results_text_box(R, dataset, R.legend_offset),
                   LAMBDA r : [r EXCEPT !.legend_offset = @ + 3])
         ELSE R,
         LAMBDA r : IF r.show_residuals
                    THEN bk_plot_dataset(r, dataset, TRUE, color, TRUE)
                    ELSE r)

\* The loop of Plot.populate_bokeh_figure over the datasets, from the i-th on.
RECURSIVE bk_datasets_loop(_, _)
bk_datasets_loop(R, i) ==
    IF i > Len(datasets) \/ i > Len(datasets_colors) \/ R.exc # "ok" THEN R
    ELSE bk_datasets_loop(
             Then(bk_plot_dataset(R, datasets[i], FALSE, datasets_colors[i], TRUE),
                  LAMBDA r : IF nfits[datasets[i]] > 0
                             THEN bk_plot_fit_results(r, datasets[i], datasets_colors[i])
                             ELSE r),
             i + 1)

\* The loop of Plot.populate_bokeh_figure over the user functions.
RECURSIVE bk_functions_loop(_, _)
bk_functions_loop(R, i) ==
    IF i > Len(user_functions) \/ i > Len(user_functions_colors) \/ R.exc # "ok" THEN R
    ELSE bk_functions_loop(
             bk_plot_function(R, user_functions[i], user_functions_xdata,
                              user_functions_pars[i], NSample,
                              user_functions_names[i], user_functions_colors[i],
                              errorband_sigma),
             i + 1)

\* The pixels Plot.populate_bokeh_figure reserves for the fit results: 25 for
\* each parameter of each fitted dataset.
RECURSIVE pixelcount(_)
pixelcount(i) ==
    IF i > Len(datasets) THEN 0
    ELSE (IF nfits[datasets[i]] > 0 THEN FitNpars(datasets[i], nfits[datasets[i]]) * 25
                                    ELSE 0)
         + pixelcount(i + 1)

\* "expand the y-range to accomodate the fit results text":
\* self.y_range[1] += pixelcount * self.y_range[1] / self.dimensions[1]
\* (y_range[1] being what the plot holds with nothing added when this runs).
y_range_expanded(R) ==
    IF show_fit_results THEN [R EXCEPT !.y_extra = @ + pixelcount(1) * R.y_range[2]]
    ELSE R

\* self.y_range[1] = yrange_recall
y_range_left_expanded(R, yrange_recall) == R

y_range_restored(R, yrange_recall) == [R EXCEPT !.y_extra = yrange_recall]

\* The end of Plot.populate_bokeh_figure: the legend is placed and, with
\* residuals, the two figures are stacked in a gridplot, which becomes
\* self.bkfigure.
bk_finish(R) ==
    IF R.show_residuals
    THEN [R EXCEPT
            !.figs = Append([@ EXCEPT ![R.bkfigure].legend = TRUE],
                            [Figure("bokeh", "grid", x_range, y_range, 0, TRUE,
                                    yres_range)
                                EXCEPT !.children = <<R.bkfigure, R.bkres>>]),
            !.bkfigure = Len(R.figs) + 1]
    ELSE [R EXCEPT !.figs[R.bkfigure].legend = TRUE]

\* Plot.populate_bokeh_figure(): the context it leaves, self.bkfigure being
\* the figure it returns.
populate_bokeh_figure(R) ==
    Then(bk_functions_loop(
             bk_datasets_loop(
                 Then(y_range_restored(
                          initialize_bokeh_figure(y_range_expanded(R), FALSE), R.y_extra),
                      LAMBDA r : IF r.show_residuals
                                 THEN initialize_bokeh_figure(r, TRUE)
                                 ELSE r),
                 1),
             1),
         bk_finish)

----------------------------------------------------------------------------
(* Showing the plot *)

\* Plot.set_errorband_sigma(sigma)
set_errorband_sigma(sigma) ==
    /\ errorband_sigma' = sigma
    /\ call' = Call("set_errorband_sigma", "ok", <<sigma>>, <<>>)
    /\ UNCHANGED <<color_count, datasets, datasets_colors, user_functions,
                   user_functions_pars, user_functions_names, user_functions_colors,
                   user_functions_count, x_range, y_range, range_numeric, yres_range,
                   show_residuals, initialized_from_dataset, labels,
                   show_fit_results, datasetVars, palette_calls, last_color, y_base,
                   fn_log, backendVars>>

\* How many elements a figure shows, a gridplot showing those of its children.
Drawn(figures, handle) ==
    IF handle = 0 THEN 0
    ELSE Len(figures[handle].elements)
         + (IF figures[handle].children = <<>> THEN 0
            ELSE Len(figures[figures[handle].children[1]].elements)
                 + Len(figures[figures[handle].children[2]].elements))

\* Something a show call did outside the plot: a file written, a figure
\* displayed, a notebook prepared; with the figure it was done to and how many
\* elements that figure showed at that moment.
Output(op, figures, handle) == [op |-> op, fig |-> handle, drawn |-> Drawn(figures, handle)]

\* Plot.set_bokeh_output(output)
set_bokeh_output(R, output) ==
    IF output = "file" \/ ~in_notebook
    THEN [R EXCEPT !.out = Append(@, Output("output_file", R.figs, 0))]
    ELSE IF ~output_notebook_called.bokeh
    THEN [R EXCEPT !.out = Append(@, Output("output_notebook", R.figs, 0))]
    ELSE R

\* Plot.set_mpl_output(output): plt.savefig saves pyplot's current figure.
set_mpl_output(R, output) ==
    IF output = "file" \/ ~in_notebook
    THEN [R EXCEPT !.out = Append(@, Output("savefig", R.figs, R.cur.fig))]
    ELSE IF ~output_notebook_called.mpl
    THEN [R EXCEPT !.out = Append(@, Output("output_notebook", R.figs, 0))]
    ELSE R

\* bp.show(figure), the figure being self.bkfigure
bp_show(R) ==
    IF R.exc # "ok" THEN R
    ELSE IF R.bkfigure = 0
    THEN \* self.bkfigure was never assigned
         Raise(R, "AttributeError")
    ELSE [R EXCEPT !.out = Append(@, Output("show", R.figs, R.bkfigure))]

\* plt.show(): displays pyplot's figure.
plt_show(R) ==
    IF R.exc # "ok" THEN R
    ELSE [R EXCEPT !.out = Append(@, Output("show", R.figs, R.cur.fig))]

\* Whether Plot.show builds the figure: its populate_figure argument.
populate_always(populate_figure) == TRUE

populate_requested(populate_figure) == populate_figure

\* What Plot.show does to the figures and outside the plot, called in the
\* course of a call that has worked on R.
show_from(R, output, populate_figure, refresh) ==
    IF plot_engine = "bokeh"
    THEN bp_show(IF populate_requested(populate_figure)
                 THEN populate_bokeh_figure(set_bokeh_output(R, output))
                 ELSE set_bokeh_output(R, output))
    ELSE IF plot_engine = "mpl"
    THEN \* show calls set_mpl_output() without its output argument
         plt_show(IF populate_requested(populate_figure)
                  THEN populate_mpl_figure(set_mpl_output(R, "inline"), refresh)
                  ELSE set_mpl_output(R, "inline"))
    ELSE R

show_engine(output, populate_figure, refresh) ==
    show_from(RenderContext, output, populate_figure, refresh)

\* qu.bokeh_ouput_notebook_called and qu.mpl_ouput_notebook_called after
\* set_bokeh_output(output) or set_mpl_output() has run.
notebook_called_after(output) ==
    IF output # "file" /\ in_notebook /\ plot_engine = "bokeh"
    THEN [output_notebook_called EXCEPT !.bokeh = TRUE]
    ELSE IF in_notebook /\ plot_engine = "mpl"
    THEN [output_notebook_called EXCEPT !.mpl = TRUE]
    ELSE output_notebook_called

\* What a show call that worked on R leaves.
show_leaves(R, output, populate_figure, refresh) ==
    /\ figs' = R.figs
    /\ mplfigure' = R.mplfigure
    /\ mpl_gs' = R.mpl_gs
    /\ bkfigure' = R.bkfigure
    /\ bkres' = R.bkres
    /\ plt_current' = R.cur
    /\ show_residuals' = R.show_residuals
    /\ outputs' = R.out
    /\ x_range' = R.x_range
    /\ y_range' = R.y_range
    /\ y_range_extra' = R.y_extra
    /\ minmax_n' = R.minmax_n
    /\ output_notebook_called' = notebook_called_after(output)
    /\ renders' = IF plot_engine \in {"bokeh", "mpl"}
                     /\ populate_requested(populate_figure)
                  THEN renders + 1 ELSE renders
    /\ call' = Call("show", R.exc, <<output, populate_figure, refresh>>,
                    IF plot_engine \in {"bokeh", "mpl"} THEN <<>>
                    ELSE <<"Error: unrecognized plot engine">>)
    /\ UNCHANGED <<color_count, datasets, datasets_colors, user_functions,
                   user_functions_pars, user_functions_names,
                   user_functions_colors, user_functions_count,
                   range_numeric, yres_range, initialized_from_dataset, labels,
                   errorband_sigma, show_fit_results, datasetVars, palette_calls,
                   last_color, y_base, fn_log, plot_engine, in_notebook,
                   explorerVars, fn_grids>>

\* fig.show_fit_results = value
set_show_fit_results(value) ==
    /\ show_fit_results' = value
    /\ call' = Call("set_show_fit_results", "ok", <<value>>, <<>>)
    /\ UNCHANGED <<color_count, datasets, datasets_colors, user_functions,
                   user_functions_pars, user_functions_names, user_functions_colors,
                   user_functions_count, x_range, y_range, range_numeric, yres_range,
                   show_residuals, initialized_from_dataset, labels,
                   errorband_sigma, datasetVars, palette_calls, last_color, y_base,
                   fn_log, backendVars>>

\* Plot.show(output, populate_figure, refresh)
show(output, populate_figure, refresh) ==
    show_leaves(show_engine(output, populate_figure, refresh),
                output, populate_figure, refresh)

----------------------------------------------------------------------------
(* The interactive explorer of a linear fit *)

\* dataset.fit_pcorr[-1][0][1]: the correlation of the offset and the slope
\* of a linear fit.
FitCorr(d, n) == -1

\* A call that ends with nothing but its outcome to tell.
only_call(c) ==
    /\ call' = c
    /\ UNCHANGED <<sceneVars, datasetVars, palette_calls, last_color, y_base, fn_log,
                   backendVars>>

\* What the plot, pyplot and the figures are left as by a call that worked on R.
explorer_leaves(R) ==
    /\ figs' = R.figs
    /\ mplfigure' = R.mplfigure
    /\ mpl_gs' = R.mpl_gs
    /\ bkfigure' = R.bkfigure
    /\ bkres' = R.bkres
    /\ plt_current' = R.cur
    /\ show_residuals' = R.show_residuals
    /\ x_range' = R.x_range
    /\ y_range' = R.y_range
    /\ y_range_extra' = R.y_extra
    /\ minmax_n' = R.minmax_n
    /\ outputs' = R.out
    /\ UNCHANGED <<color_count, datasets, datasets_colors, user_functions,
                   user_functions_pars, user_functions_names,
                   user_functions_colors, user_functions_count, range_numeric,
                   yres_range, initialized_from_dataset, labels, errorband_sigma,
                   show_fit_results, ds_name, palette_calls, last_color, y_base,
                   fn_log, plot_engine, in_notebook, renders, fn_grids>>

\* "Extend the x range to 0": the lower x bound moved to -0.5 and the lower y
\* bound to the fit's value there.
extend_x_range(R, pars) ==
    IF R.x_range[1] > -1
    THEN [R EXCEPT !.x_range = <<-1, @[2]>>,
                   !.y_range = <<pars.v[1].mean - pars.v[2].mean, @[2]>>]
    ELSE R

\* The figure bk_show_linear_fit makes: a new main figure, the dataset
\* without its fit function, then the fit's line and band.
bk_linear_fit_drawn(R, dataset, color, pars) ==
    Then(bk_plot_dataset(initialize_bokeh_figure(R, FALSE), dataset, FALSE, color,
                         FALSE),
         LAMBDA r : bk_plot_function(r, Fxp,
                                     <<r.x_range[1] + x_range_margin,
                                       r.x_range[2] - x_range_margin>>,
                                     pars, NSample, <<"linear">>, color,
                                     errorband_sigma))

\* self.bkfigure.legend.location = self.bk_legend_location
bk_legend_placed(R) ==
    IF R.exc # "ok" THEN R ELSE [R EXCEPT !.figs[R.bkfigure].legend = TRUE]

\* line, patches = self.bk_plot_function(...) and what is kept of them: the
\* two elements the call drew last on self.bkfigure.
linear_fit_kept_patches_only(R, pars, corr) ==
    [set |-> TRUE, fig |-> R.bkfigure,
     line |-> Len(R.figs[R.bkfigure].elements),
     patches |-> Len(R.figs[R.bkfigure].elements),
     pars |-> pars, corr |-> corr]

linear_fit_kept(R, pars, corr) ==
    [set |-> TRUE, fig |-> R.bkfigure,
     line |-> Len(R.figs[R.bkfigure].elements) - 1,
     patches |-> Len(R.figs[R.bkfigure].elements),
     pars |-> pars, corr |-> corr]

\* What bk_show_linear_fit leaves once the dataset is fitted.
bk_show_linear_fit_leaves(R, output, dataset, pars, warning) ==
    /\ explorer_leaves(R)
    /\ nfits' = [nfits EXCEPT ![dataset] = 1]
    /\ linear_fit' = IF R.exc = "ok"
                     THEN linear_fit_kept(R, pars, FitCorr(dataset, 1))
                     ELSE linear_fit
    /\ linear_fit_history' = [fitted |-> TRUE,
                              drawn |-> linear_fit_history.drawn \/ R.exc = "ok"]
    /\ output_notebook_called' =
          IF R.exc = "ok" THEN notebook_called_after(output)
                          ELSE output_notebook_called
    /\ call' = Call("bk_show_linear_fit", R.exc, <<output>>,
                    IF plot_engine \in {"bokeh", "mpl"} THEN warning
                    ELSE warning \o <<"Error: unrecognized plot engine">>)
    /\ UNCHANGED interact

\* A call that ended when or before the dataset was fitted: clear_fits has
\* run once there was a dataset to run it on.
linear_fit_fails(op, exception, args, warning) ==
    LET pos == PyIndex(datasets, -1)
    IN  /\ nfits' = IF pos = 0 THEN nfits
                    ELSE [nfits EXCEPT ![datasets[pos]] =
                             IF exception = "TypeError" THEN 1 ELSE 0]
        /\ call' = Call(op, exception, args, warning)
        /\ linear_fit_history' =
              IF exception = "TypeError" THEN [linear_fit_history EXCEPT !.fitted = TRUE]
              ELSE linear_fit_history
        /\ UNCHANGED <<sceneVars, ds_name, palette_calls, last_color, y_base, fn_log,
                       environmentVars, figureVars, outputs, renders, linear_fit,
                       interact, minmax_n, y_range_extra, fn_grids>>

\* Plot.bk_show_linear_fit(output); fitted tells whether dataset.fit("linear")
\* returns or raises.
bk_show_linear_fit(output, fitted) ==
    LET pos == PyIndex(datasets, -1)
        warning == IF Len(datasets) > 1
                   THEN <<"Warning: only using the last added dataset, and clearing previous fits">>
                   ELSE <<>>
    IN  IF pos = 0
        THEN linear_fit_fails("bk_show_linear_fit", "IndexError", <<output>>, warning)
        ELSE IF ~fitted
        THEN linear_fit_fails("bk_show_linear_fit", "FitError", <<output>>, warning)
        ELSE IF ~range_numeric.x
        THEN \* self.x_range[0] > -0.5 compares a non-number with a number
             linear_fit_fails("bk_show_linear_fit", "TypeError", <<output>>, warning)
        ELSE bk_show_linear_fit_leaves(
                 show_from(bk_legend_placed(
                               bk_linear_fit_drawn(
                                   extend_x_range(RenderContext, FitPars(datasets[pos], 1)),
                                   datasets[pos], datasets_colors[pos],
                                   FitPars(datasets[pos], 1))),
                           output, FALSE, TRUE),
                 output, datasets[pos], FitPars(datasets[pos], 1), warning)

\* The x values a drawn line holds, from the grid <<first, last, points>>.
grid_points(grid) ==
    [i \in 1..grid[3] |-> grid[1] + (i - 1) * ((grid[2] - grid[1]) \div (grid[3] - 1))]

\* (omes + smes*xdata).get_means() and .get_stds() for omes = offset +/-
\* offset_err and smes = slope +/- slope_err of that correlation, numerators
\* over n-1 (exact for a correlation of -1 or 1, and for one of 0 when one
\* of the two errors is 0).
linear_means(offset, slope, xvals) ==
    [i \in 1..Len(xvals) |-> offset * (Len(xvals) - 1) + slope * xvals[i]]

linear_stds(offset_err, slope_err, correlation, xvals) ==
    [i \in 1..Len(xvals) |->
        IF correlation = 0
        THEN offset_err * (Len(xvals) - 1) + slope_err * Abs(xvals[i])
        ELSE Abs(offset_err * (Len(xvals) - 1) + correlation * slope_err * xvals[i])]

\* self.linear_fit_line.data_source.data['y'] = fmes.get_means()
\* self.linear_fit_patches.data_source.data['y'] = np.append(ymax, ymin[::-1])
bk_update_data_upper_only(F, kept, means, stds) ==
    [F EXCEPT ![kept.fig].elements[kept.line].mean = means,
              ![kept.fig].elements[kept.patches] =
                  [@ EXCEPT !.mean = means, !.std = stds, !.factor = 1,
                            !.upper = [i \in 1..Len(means) |-> means[i] + stds[i]],
                            !.lower = <<>>]]

bk_update_data(F, kept, means, stds) ==
    [F EXCEPT ![kept.fig].elements[kept.line].mean = means,
              ![kept.fig].elements[kept.patches] =
                  [@ EXCEPT !.mean = means, !.std = stds, !.factor = 1,
                            !.upper = [i \in 1..Len(means) |-> means[i] + stds[i]],
                            !.lower = [i \in 1..Len(means) |-> means[i] - stds[i]]]]

\* One run of the callback update of bk_interact_linear_fit, as part of the
\* call op.
bk_update_runs(op, offset, offset_err, slope, slope_err, correlation) ==
    /\ figs' = bk_update_data(
                   figs, linear_fit,
                   linear_means(offset, slope,
                                grid_points(figs[linear_fit.fig].elements[linear_fit.line].grid)),
                   linear_stds(offset_err, slope_err, correlation,
                               grid_points(figs[linear_fit.fig].elements[linear_fit.line].grid)))
    \* recall = qe.Measurement.minmax_n ... qe.Measurement.minmax_n = recall
    /\ minmax_n' = minmax_n
    /\ outputs' = <<Output("push_notebook", figs, linear_fit.fig)>>
    /\ call' = Call(op, "ok", <<offset, offset_err, slope, slope_err, correlation>>, <<>>)
    /\ UNCHANGED <<sceneVars, datasetVars, palette_calls, last_color, y_base, fn_log,
                   environmentVars, mplfigure, mpl_gs, bkfigure, bkres, plt_current,
                   renders, linear_fit, linear_fit_history, y_range_extra, fn_grids>>

\* Whether bk_interact_linear_fit finds the attributes it reads.
linear_fit_attributes_set(kept) == kept.set

\* Plot.bk_interact_linear_fit(error_range): the controls are made and
\* interact runs update once with the fitted values.
bk_interact_linear_fit(error_range) ==
    IF ~linear_fit_attributes_set(linear_fit)
    THEN \* self.linear_fit_pars was never assigned
         only_call(Call("bk_interact_linear_fit", "AttributeError", <<error_range>>, <<>>))
    ELSE /\ interact' = [interact EXCEPT !.bk = TRUE]
         /\ bk_update_runs("bk_interact_linear_fit",
                           linear_fit.pars.v[1].mean, linear_fit.pars.v[1].std,
                           linear_fit.pars.v[2].mean, linear_fit.pars.v[2].std,
                           linear_fit.corr)

\* The callback update of bk_interact_linear_fit, run when a control moves.
bk_update(offset, offset_err, slope, slope_err, correlation) ==
    /\ interact.bk
    /\ UNCHANGED interact
    /\ bk_update_runs("bk_update", offset, offset_err, slope, slope_err, correlation)

\* np.linspace(self.x_range[0], self.x_range[1], 20) of the matplotlib callback
NInteractSample == 20

\* plt.figure(figsize=...): a new figure, pyplot's current one from now on.
plt_figure(R) ==
    [R EXCEPT !.figs = Append(@, Figure("mpl", "interactive", R.x_range, R.y_range, 0,
                                        FALSE, Undefined)),
              !.cur = [fig |-> Len(R.figs) + 1, panel |-> "main"]]

\* What the callback update of interactive_linear_fit draws on pyplot's
\* figure: the dataset, the line, the band of one standard deviation, the
\* text of the two parameters, the legend; and plt.show().
mpl_update_drawn(R, closure, fvals, ferr, xvals) ==
    plt_show(
        [Draw(Draw(Draw(Draw(R, R.cur.fig,
                             Element("points", "main", <<closure.dataset>>, closure.color)),
                        R.cur.fig,
                        Line("main", <<"linear fit">>, closure.color, xvals, fvals)),
                   R.cur.fig,
                   Band("main", <<"linear fit">>, closure.color, xvals, fvals, ferr,
                        [i \in 1..Len(fvals) |-> fvals[i] - ferr[i]],
                        [i \in 1..Len(fvals) |-> fvals[i] + ferr[i]], 1)),
              R.cur.fig, Text("main", <<"offset", "slope">>, 0))
         EXCEPT !.figs[R.cur.fig].legend = TRUE])

\* One run of the callback update of interactive_linear_fit on R.
mpl_update_on(R, closure, offset, offset_err, slope, slope_err, correlation) ==
    IF ~range_numeric.x
    THEN \* np.linspace fails on a range that does not hold numbers
         Raise(plt_figure(R), "TypeError")
    ELSE mpl_update_drawn(plt_figure(R), closure,
                          linear_means(offset, slope,
                                       linspace(R.x_range[1], R.x_range[2], NInteractSample)),
                          linear_stds(offset_err, slope_err, correlation,
                                      linspace(R.x_range[1], R.x_range[2], NInteractSample)),
                          linspace(R.x_range[1], R.x_range[2], NInteractSample))

\* What interactive_linear_fit leaves once the dataset is fitted.
interactive_linear_fit_leaves(R, dataset, closure, error_range, warning) ==
    /\ explorer_leaves(R)
    /\ nfits' = [nfits EXCEPT ![dataset] = 1]
    /\ interact' = [interact EXCEPT !.mpl = <<closure>>]
    /\ call' = Call("interactive_linear_fit", R.exc, <<error_range>>, warning)
    /\ linear_fit_history' = [linear_fit_history EXCEPT !.fitted = TRUE]
    /\ UNCHANGED <<linear_fit, output_notebook_called>>

\* Plot.interactive_linear_fit(error_range); fitted tells whether
\* dataset.fit("linear") returns or raises.  interact runs update once with
\* the fitted values.
interactive_linear_fit(error_range, fitted) ==
    LET pos == PyIndex(datasets, -1)
        warning == IF Len(datasets) > 1
                   THEN <<"Warning: only using the last added dataset, and clearing previous fits">>
                   ELSE <<>>
    IN  IF pos = 0
        THEN linear_fit_fails("interactive_linear_fit", "IndexError", <<error_range>>,
                              warning)
        ELSE IF ~fitted
        THEN linear_fit_fails("interactive_linear_fit", "FitError", <<error_range>>,
                              warning)
        ELSE IF ~range_numeric.x
        THEN linear_fit_fails("interactive_linear_fit", "TypeError", <<error_range>>,
                              warning)
        ELSE interactive_linear_fit_leaves(
                 mpl_update_on(extend_x_range(RenderContext, FitPars(datasets[pos], 1)),
                               [dataset |-> datasets[pos], color |-> datasets_colors[pos]],
                               FitPars(datasets[pos], 1).v[1].mean,
                               FitPars(datasets[pos], 1).v[1].std,
                               FitPars(datasets[pos], 1).v[2].mean,
                               FitPars(datasets[pos], 1).v[2].std,
                               FitCorr(datasets[pos], 1)),
                 datasets[pos],
                 [dataset |-> datasets[pos], color |-> datasets_colors[pos]],
                 error_range, warning)

\* The callback update of interactive_linear_fit, run when a control moves.
mpl_update(offset, offset_err, slope, slope_err, correlation) ==
    /\ interact.mpl # <<>>
    /\ explorer_leaves(mpl_update_on(RenderContext, interact.mpl[1], offset, offset_err,
                                     slope, slope_err, correlation))
    /\ call' = Call("mpl_update",
                    mpl_update_on(RenderContext, interact.mpl[1], offset, offset_err,
                                  slope, slope_err, correlation).exc,
                    <<offset, offset_err, slope, slope_err, correlation>>, <<>>)
    /\ UNCHANGED <<nfits, explorerVars, output_notebook_called>>

----------------------------------------------------------------------------
(* The draw methods called on their own *)

\* A call of a draw method that worked on R.
draw_call(op, args, R) ==
    /\ explorer_leaves(R)
    /\ call' = Call(op, R.exc, args, <<>>)
    /\ UNCHANGED <<nfits, explorerVars, output_notebook_called>>

\* How many elements the figures hold.
RECURSIVE elements_drawn(_, _)
elements_drawn(F, h) ==
    IF h > Len(F) THEN 0 ELSE Len(F[h].elements) + elements_drawn(F, h + 1)

----------------------------------------------------------------------------
(* Rendering: scenes with fits, functions with uncertain parameters, either
   backend, shown again and again *)

\* The functions a scene is given, in this order: one whose parameters carry
\* uncertainties, then one without parameters.
UncertainFunctions == <<<<Fxp, MeasurementArrayPars(1, 1, 1, 2)>>, <<Fx(1, 0), NoPars>>>>

\* What show is called with.
ShowInputs == {<<"inline", TRUE, TRUE>>, <<"file", TRUE, FALSE>>,
               <<"inline", FALSE, TRUE>>}

\* The fits the datasets have when the plot is made: one dataset fitted,
\* the other not.
RenderFits == {nf \in InitialFits : nf["d1"] # nf["d2"]}

InitRender ==
    /\ \E dataset \in {None, "d1"}, nf \in RenderFits : Plot(dataset, nf)
    /\ \E engine \in {"bokeh", "mpl"}, notebook \in BOOLEAN : Session(engine, notebook)
    /\ minmax_n = minmax_n_default

RenderAddDataset ==
    /\ renders = 0
    /\ Len(datasets) < MaxDatasets
    /\ \E d \in DatasetIds :
           /\ \A i \in 1..Len(datasets) : datasets[i] # d
           /\ add_dataset(d, NoColor, None)

RenderAddFunction ==
    /\ Len(user_functions) < Min2(MaxFunctions, Len(UncertainFunctions))
    /\ LET fp == UncertainFunctions[Len(user_functions) + 1]
       IN  add_function(fp[1], fp[2], None, NoColor)

RenderAddResiduals == add_residuals

SetErrorbandSigma == errorband_sigma # 2 /\ set_errorband_sigma(2)

Show ==
    \E args \in ShowInputs :
        /\ IF args[2] THEN renders < MaxRenders ELSE renders > 0
        /\ show(args[1], args[2], args[3])

NextRender == RenderAddDataset \/ RenderAddFunction \/ RenderAddResiduals
                  \/ SetErrorbandSigma \/ Show
SpecRender == InitRender /\ [][NextRender]_vars

----------------------------------------------------------------------------
(* Exploring a linear fit: either engine, in a notebook; the plot made with or
   without a dataset, fitted and shown in any order, the controls moved *)

\* The figures a session makes at most.
MaxFigures == 3

\* What the controls are moved to: <<offset, offset_err, slope, slope_err,
\* correlation>>.
UpdateInputs == {<<5, 0, 0, 0, 0>>, <<4, 1, 1, 0, 0>>, <<6, 1, -1, 1, 1>>}

InitExplorer ==
    /\ \E dataset \in {None, "d1"} : Plot(dataset, [d \in DatasetIds |-> 0])
    /\ \E engine \in {"bokeh", "mpl"} : Session(engine, TRUE)
    /\ minmax_n = minmax_n_default

ExplorerAddDataset ==
    /\ Len(datasets) < MaxDatasets
    /\ \E d \in DatasetIds :
           /\ \A i \in 1..Len(datasets) : datasets[i] # d
           /\ add_dataset(d, NoColor, None)

BkShowLinearFit ==
    /\ Len(figs) < MaxFigures
    /\ \E fitted \in BOOLEAN : bk_show_linear_fit("inline", fitted)

BkInteractLinearFit == bk_interact_linear_fit(2)

BkUpdate == \E u \in UpdateInputs : bk_update(u[1], u[2], u[3], u[4], u[5])

InteractiveLinearFit ==
    /\ Len(figs) < MaxFigures
    /\ \E fitted \in BOOLEAN : interactive_linear_fit(5, fitted)

MplUpdate ==
    /\ Len(figs) < MaxFigures
    /\ \E u \in UpdateInputs : mpl_update(u[1], u[2], u[3], u[4], u[5])

ExplorerShow ==
    /\ Len(figs) < MaxFigures
    /\ renders < 1
    /\ show("inline", TRUE, TRUE)

NextExplorer == ExplorerAddDataset \/ BkShowLinearFit \/ BkInteractLinearFit
                    \/ BkUpdate \/ InteractiveLinearFit \/ MplUpdate \/ ExplorerShow
SpecExplorer == InitExplorer /\ [][NextExplorer]_vars

----------------------------------------------------------------------------
(* The propagation mode: sessions that have set Measurement.minmax_n or left
   it alone, functions that return or raise, fits explored and scenes shown *)

\* The functions and parameters add_function is called with.
ModeFunctions == {<<Fxp, MeasurementArrayPars(1, 1, 1, 2)>>,
                  <<Fraises, MeasurementArrayPars(1, 1, 1, 2)>>,
                  <<Fraises, NoPars>>}

InitMode ==
    /\ Plot("d1", [d \in DatasetIds |-> 0])
    /\ \E engine \in {"bokeh", "mpl"} : Session(engine, TRUE)
    /\ minmax_n \in minmax_n_values

ModeAddFunction ==
    /\ user_functions = <<>>
    /\ \E fp \in ModeFunctions : add_function(fp[1], fp[2], None, NoColor)

NextMode == ModeAddFunction \/ BkShowLinearFit \/ BkInteractLinearFit \/ BkUpdate
                \/ InteractiveLinearFit \/ MplUpdate \/ ExplorerShow
SpecMode == InitMode /\ [][NextMode]_vars

----------------------------------------------------------------------------
(* Text boxes: up to three datasets, fitted before the plot is made, added
   one after the other and shown with either engine, with and without the
   text of the fit results *)

\* The datasets, in the order they are added; the third has the data of the
\* second.
TextBoxDatasets == <<"d1", "d2", "d3">>

\* The datasets a plot is given at most.
MaxTextBoxes == 3

\* Every dataset fitted, or every one but the second.
TextBoxFits == {[d \in {"d1", "d2", "d3"} |-> 1],
                [d \in {"d1", "d2", "d3"} |-> IF d = "d2" THEN 0 ELSE 1]}

InitTextBox ==
    /\ \E nf \in TextBoxFits : Plot(None, nf)
    /\ \E engine \in {"bokeh", "mpl"} : Session(engine, TRUE)
    /\ minmax_n = minmax_n_default

TextBoxAddDataset ==
    /\ renders = 0
    /\ Len(datasets) < Min2(MaxTextBoxes, Len(TextBoxDatasets))
    /\ add_dataset(TextBoxDatasets[Len(datasets) + 1], NoColor, None)

SetShowFitResults == set_show_fit_results(~show_fit_results)

TextBoxAddResiduals == ~show_residuals /\ add_residuals

TextBoxShow ==
    /\ renders < MaxRenders
    /\ show("inline", TRUE, TRUE)

NextTextBox == TextBoxAddDataset \/ SetShowFitResults \/ TextBoxAddResiduals
                   \/ TextBoxShow
SpecTextBox == InitTextBox /\ [][NextTextBox]_vars

----------------------------------------------------------------------------
(* The lists of the scene: many datasets and functions attached, functions
   accepted, rejected for their parameters, and raising *)

ListsAddRejectedFunction ==
    \E fp \in {<<Fxp, BadPars>>, <<Fraises, NoPars>>} :
        add_function(fp[1], fp[2], None, NoColor)

NextLists == PaletteAddDataset \/ PaletteAddFunction \/ ListsAddRejectedFunction
SpecLists == InitUnfitted /\ [][NextLists]_vars

----------------------------------------------------------------------------
(* Drawing by hand: datasets attached, fitted and given residuals in any
   order, and the draw methods of either backend called on the plot, before
   and after a figure exists *)

\* The draw calls a session makes stop once the figures hold this many
\* elements.
MaxElements == 3

\* The functions the draw methods are handed.
DrawFunctions == {<<Fx(1, 0), NoPars>>, <<Fxp, MeasurementArrayPars(1, 1, 1, 2)>>,
                  <<Fraises, MeasurementArrayPars(1, 1, 1, 2)>>}

InitDraw ==
    /\ \E dataset \in {None, "d1"} : Plot(dataset, [d \in DatasetIds |-> 0])
    /\ Session("mpl", TRUE)
    /\ minmax_n = minmax_n_default

DrawAddDataset ==
    /\ figs = <<>>
    /\ Len(datasets) < MaxDatasets
    /\ \E d \in DatasetIds :
           /\ \A i \in 1..Len(datasets) : datasets[i] # d
           /\ add_dataset(d, NoColor, None)

DrawFit ==
    /\ figs = <<>>
    /\ datasets # <<>>
    /\ nfits[datasets[Len(datasets)]] < MaxFits
    /\ fit(-1)

DrawAddResiduals == figs = <<>> /\ ~show_residuals /\ add_residuals

CanDraw == Len(figs) < MaxFigures /\ elements_drawn(figs, 1) < MaxElements

MplPlotDataset ==
    /\ CanDraw
    /\ \E d \in DatasetIds, show_res \in BOOLEAN :
           draw_call("mpl_plot_dataset", <<d, show_res>>,
                     mpl_plot_dataset(RenderContext, d, UserColor, TRUE, show_res))

MplPlotFunction ==
    /\ CanDraw
    /\ \E fp \in DrawFunctions :
           draw_call("mpl_plot_function", <<fp[1].kind>>,
                     mpl_plot_function(RenderContext, fp[1], <<0, 2>>, fp[2], NSample,
                                       <<"f">>, UserColor, 1))

MplPlotFitResultsTextBox ==
    /\ CanDraw
    /\ \E d \in DatasetIds :
           /\ nfits[d] > 0
           /\ draw_call("mpl_plot_fit_results_text_box", <<d>>,
                        mpl_plot_fit_results_text_box(RenderContext, d, 0))

BkPlotDataset ==
    /\ CanDraw
    /\ \E d \in DatasetIds, residual \in BOOLEAN :
           draw_call("bk_plot_dataset", <<d, residual>>,
                     bk_plot_dataset(RenderContext, d, residual, UserColor, TRUE))

BkPlotFunction ==
    /\ CanDraw
    /\ \E fp \in DrawFunctions \ {<<Fraises, MeasurementArrayPars(1, 1, 1, 2)>>} :
           draw_call("bk_plot_function", <<fp[1].kind>>,
                     bk_plot_function(RenderContext, fp[1], <<0, 2>>, fp[2], NSample,
                                      <<"f">>, UserColor, 1))

BkPlotFitResultsTextBox ==
    /\ CanDraw
    /\ \E d \in DatasetIds :
           /\ nfits[d] > 0
           /\ draw_call("bk_plot_fit_results_text_box", <<d>>,
                        bk_plot_fit_results_text_box(RenderContext, d, 0))

NextDraw == DrawAddDataset \/ DrawFit \/ DrawAddResiduals \/ MplPlotDataset
                \/ MplPlotFunction \/ MplPlotFitResultsTextBox \/ BkPlotDataset
                \/ BkPlotFunction \/ BkPlotFitResultsTextBox
SpecDraw == InitDraw /\ [][NextDraw]_vars

----------------------------------------------------------------------------
(* C1 *)

Covers(range, extent, margin) ==
    /\ range[1] <= extent[1] - margin
    /\ range[2] >= extent[2] + margin

\* C1: after every add_dataset call on a scene made empty or from a dataset,
\* x_range and y_range contain the x and y extent of every attached dataset,
\* each widened by the margin on both sides.
C1_RangesCoverEveryDataset ==
    \A i \in 1..Len(datasets) :
        /\ Covers(x_range, XExtent(datasets[i]), x_range_margin)
        /\ Covers(y_range, YExtent(datasets[i]), y_range_margin)

\* Two different datasets attached, the second by add_dataset, each of which
\* reaches beyond the other on some side.
C1_Witness ==
    /\ call.op = "add_dataset" /\ call.ret = "ok"
    /\ Len(datasets) = 2 /\ datasets[1] # datasets[2]

----------------------------------------------------------------------------
(* C2 *)

NoShrink ==
    /\ x_range'[1] <= x_range[1] /\ x_range'[2] >= x_range[2]
    /\ y_range'[1] <= y_range[1] /\ y_range'[2] >= y_range[2]

\* C2 as stated: no add_dataset or add_function call on a newly made scene
\* ever raises a lower bound or lowers an upper bound of x_range or y_range.
C2_NeverShrinks ==
    [][call'.op \in {"add_dataset", "add_function"} => NoShrink]_vars

----------------------------------------------------------------------------
(* C7 *)

SomeDatasetFitted == \E i \in 1..Len(datasets) : nfits[datasets[i]] > 0

\* C7: on a scene that holds a dataset, add_residuals completes and leaves
\* show_residuals on exactly when some attached dataset, at any position of
\* the list, has a fit.
C7_ResidualsOnIffSomeFit ==
    (call.op = "add_residuals" /\ Len(datasets) > 0) =>
        (call.ret = "ok" /\ (show_residuals <=> SomeDatasetFitted))

----------------------------------------------------------------------------
(* C8 *)

\* C8: after add_dataset or add_residuals the residual range contains the
\* residual extent, widened by the margin, of every attached dataset that has
\* a fit.
C8_ResidualRangeCoversEveryFit ==
    (call.op \in {"add_dataset", "add_residuals"} /\ call.ret = "ok") =>
        \A i \in 1..Len(datasets) :
            nfits[datasets[i]] > 0 =>
                /\ yres_range # Undefined
                /\ Covers(yres_range, YresExtent(datasets[i], nfits[datasets[i]]),
                          y_range_margin)

----------------------------------------------------------------------------
(* C3 *)

\* C3: the k-th colour the palette hands out is entry (k-1) mod N of its N
\* entries, so the (N+1)-th is entry 0 again; the cursor stays within 0..N and
\* no assignment reads outside the palette.
C3_PaletteCycles ==
    /\ color_count \in 0..PaletteLen
    /\ call.ret # "IndexError"
    /\ palette_calls >= 1 => last_color = (palette_calls - 1) % PaletteLen

\* The assignment after the last entry of the palette was handed out.
C3_Witness ==
    /\ palette_calls = PaletteLen + 1
    /\ last_color = 0
    /\ color_count = 1

----------------------------------------------------------------------------
(* C4 *)

RECURSIVE lowest(_, _, _)
lowest(log, i, m) ==
    IF i > Len(log) THEN m
    ELSE lowest(log, i + 1, IF log[i].fmin < m THEN log[i].fmin ELSE m)
RECURSIVE highest(_, _, _)
highest(log, i, m) ==
    IF i > Len(log) THEN m
    ELSE highest(log, i + 1, IF log[i].fmax > m THEN log[i].fmax ELSE m)

\* C4: after any run of add_function calls on a scene whose y range was
\* [lo, hi], the y range is [min(lo, min_i(fmin_i - m)), max(hi, max_i(fmax_i + m))],
\* fmin_i and fmax_i being the extremes of the i-th function sampled when it
\* was added: the range grows monotonically, the last function does not win.
C4_YRangeIsUnionOfFunctions ==
    y_range = <<lowest(fn_log, 1, y_base[1]), highest(fn_log, 1, y_base[2])>>

\* Functions with the maxima 12 and then 7 added to a y range of [0, 5]: the
\* upper bound is 12.5.
C4_Witness ==
    /\ y_base = <<0, 10>>
    /\ Len(fn_log) = 2 /\ fn_log[1].fmax = 25 /\ fn_log[2].fmax = 15
    /\ y_range[2] = 25

----------------------------------------------------------------------------
(* C5 *)

----------------------------------------------------------------------------
(* C6 *)

TwoNumbers(arg) == arg.type \in ARRAY /\ Len(arg.val) = 2 /\ arg.numeric

\* C6: set_plot_range stores the range of an axis only when the argument for
\* that axis is a sequence of two numbers; any other argument that is not
\* absent is reported and the range of that axis stays as it was, whatever
\* the argument for the other axis is.
C6_OnlyTwoNumbersAreStored ==
    [][call'.op = "set_plot_range" =>
          /\ ~TwoNumbers(call'.args[1]) =>
                /\ x_range' = x_range /\ range_numeric'.x = range_numeric.x
                /\ call'.args[1] # NoRange =>
                      \E i \in 1..Len(call'.printed) :
                          call'.printed[i] = "X range must be a list"
          /\ ~TwoNumbers(call'.args[2]) =>
                /\ y_range' = y_range /\ range_numeric'.y = range_numeric.y
                /\ call'.args[2] # NoRange =>
                      \E i \in 1..Len(call'.printed) :
                          call'.printed[i] = "Y range must be a list"]_vars

----------------------------------------------------------------------------
(* C9 *)

\* The band e spans e.factor standard deviations on each side of the mean,
\* at every sample point.
BandSpansFactorTimesStd(e) ==
    /\ Len(e.std) = Len(e.mean)
    /\ Len(e.lower) = Len(e.mean)
    /\ Len(e.upper) = Len(e.mean)
    /\ \A i \in 1..Len(e.mean) :
           /\ e.lower[i] = e.mean[i] - e.factor * e.std[i]
           /\ e.upper[i] = e.mean[i] + e.factor * e.std[i]

\* C9: every band drawn on any figure, by either backend, for a fit curve or
\* a user function, has a std array as long as its mean array and spans
\* [mean - c*std, mean + c*std] at every sample point, c being the
\* errorband_sigma it was drawn with.
C9_BandIsMeanPlusMinusSigmaStd ==
    \A h \in 1..Len(figs) :
        \A k \in 1..Len(figs[h].elements) :
            figs[h].elements[k].type = "band" =>
                BandSpansFactorTimesStd(figs[h].elements[k])

----------------------------------------------------------------------------
(* C10 *)

\* The figure handle of the plot engine in use (0 while there is none).
EngineHandle == IF plot_engine = "bokeh" THEN bkfigure ELSE mplfigure

\* C10: a show call with populate_figure=False, made when the engine's figure
\* has been built by an earlier populated show, ends normally, leaves the
\* scene, the datasets, the figures and every figure handle unchanged,
\* builds nothing, and displays exactly the figure the handle names, with the
\* elements it already had.
C10_ShowWithoutPopulateChangesNothing ==
    [][(call'.op = "show" /\ ~call'.args[2] /\ EngineHandle # 0) =>
          /\ call'.ret = "ok"
          /\ UNCHANGED <<sceneVars, datasetVars, figureVars, renders>>
          /\ Len(outputs') > 0
          /\ outputs'[Len(outputs')] = Output("show", figs, EngineHandle)]_vars

\* A show with populate_figure=False has displayed the figure an earlier
\* populated show built from a scene with a dataset, after the error band
\* setting was changed.
C10_Witness ==
    /\ call.op = "show"
    /\ ~call.args[2]
    /\ call.ret = "ok"
    /\ renders > 0
    /\ EngineHandle # 0
    /\ Len(datasets) > 0
    /\ outputs # <<>>
    /\ outputs[Len(outputs)].op = "show"
    /\ outputs[Len(outputs)].fig = EngineHandle
    /\ outputs[Len(outputs)].drawn > 0

----------------------------------------------------------------------------
(* C11 *)

\* C11: a show call that ended normally has, when its target was the file,
\* written the figure to a file; and whatever it saved or displayed was a
\* figure that already showed every element the call drew on it.
C11_PersistedAndDisplayedAfterDrawing ==
    (call.op = "show" /\ call.ret = "ok") =>
        /\ call.args[1] = "file" =>
               \E k \in 1..Len(outputs) : outputs[k].op \in {"savefig", "output_file"}
        /\ \A k \in 1..Len(outputs) :
               outputs[k].op \in {"savefig", "show"} =>
                   /\ outputs[k].fig # 0
                   /\ outputs[k].drawn = Drawn(figs, outputs[k].fig)

----------------------------------------------------------------------------
(* C12 *)

\* The attributes bk_interact_linear_fit and its callback read are set: the
\* line and the patches are the line and the band of a figure that exists,
\* the parameters are the offset and the slope with their uncertainties.
KeptHandlesDefined ==
    /\ linear_fit.set
    /\ linear_fit.fig \in 1..Len(figs)
    /\ linear_fit.line \in 1..Len(figs[linear_fit.fig].elements)
    /\ linear_fit.patches \in 1..Len(figs[linear_fit.fig].elements)
    /\ figs[linear_fit.fig].elements[linear_fit.line].type = "line"
    /\ figs[linear_fit.fig].elements[linear_fit.patches].type = "band"
    /\ linear_fit.pars.kind = "marray" /\ Len(linear_fit.pars.v) = 2
    /\ linear_fit.corr \in {-1, 0, 1}

\* A step in which the callback of the bokeh explorer runs, and one in which
\* that of the matplotlib explorer does.
BkUpdateRuns ==
    \/ call'.op = "bk_update"
    \/ call'.op = "bk_interact_linear_fit" /\ call'.ret = "ok"

MplUpdateRuns ==
    \/ call'.op = "mpl_update"
    \/ call'.op = "interactive_linear_fit" /\ call'.ret \notin {"IndexError", "FitError"}
                                           /\ linear_fit_history'.fitted
                                           /\ interact'.mpl # <<>>

----------------------------------------------------------------------------
(* C13 *)

\* A step that evaluates a function of parameters with uncertainties: an
\* add_function with a Measurement_Array, a show that draws a fit or such a
\* function with matplotlib, a run of an update callback.
EvaluatesWithUncertainPars ==
    \/ call'.op = "add_function" /\ call'.args = <<"marray">>
    \/ call'.op = "show" /\ call'.args[2] /\ plot_engine = "mpl"
    \/ call'.op \in {"bk_update", "mpl_update", "bk_interact_linear_fit",
                     "interactive_linear_fit"}

\* C13: whenever a call has evaluated a function of uncertain parameters,
\* whether the call returned or the function raised, Measurement.minmax_n is
\* afterwards what it was before the call.
C13_MinmaxRestoredAfterEveryEvaluation ==
    [][EvaluatesWithUncertainPars => minmax_n' = minmax_n]_vars

----------------------------------------------------------------------------
(* C14 *)

\* The fit parameters of the fitted datasets of the plot, from the i-th
\* dataset on.
RECURSIVE FittedParameters(_)
FittedParameters(i) ==
    IF i > Len(datasets) THEN 0
    ELSE (IF nfits[datasets[i]] > 0 THEN FitNpars(datasets[i], nfits[datasets[i]]) ELSE 0)
         + FittedParameters(i + 1)

\* What a bokeh render adds to the top of the main figure's y range, as a
\* numerator over the figure's height: 25 pixels for each fit parameter,
\* scaled by y_range[1], when the text of the fit results is shown.
ExpectedExpansion ==
    IF show_fit_results THEN 25 * FittedParameters(1) * y_range[2] ELSE 0

\* C14: a bokeh render makes its main figure with the top of the y range
\* raised by the expected expansion, and only that figure; the plot's
\* y_range is after the call what it was before, with nothing added to it, so
\* that renders do not accumulate.
C14_ExpansionOnlyWhileMainFigureIsMade ==
    [][(call'.op = "show" /\ call'.args[2] /\ plot_engine = "bokeh") =>
           /\ y_range' = y_range
           /\ y_range_extra = 0 /\ y_range_extra' = 0
           /\ Len(figs') > Len(figs)
           /\ figs'[Len(figs) + 1].role = "main"
           /\ figs'[Len(figs) + 1].y_range = y_range
           /\ figs'[Len(figs) + 1].y_extra = ExpectedExpansion
           /\ \A h \in (Len(figs) + 2)..Len(figs') : figs'[h].y_extra = 0]_vars

C14_Witness ==
    /\ call.op = "show" /\ call.ret = "ok" /\ plot_engine = "bokeh"
    /\ renders = 2
    /\ show_fit_results /\ show_residuals
    /\ Len(datasets) = 3
    /\ \E h \in 1..Len(figs) : figs[h].role = "main" /\ figs[h].y_extra > 0
    /\ y_range_extra = 0

----------------------------------------------------------------------------
(* C16 *)

\* The offset between two lines of text: 18 pixels with bokeh, 0.045 of the
\* height of the y range, in thousandths, with matplotlib.
LineOffset(backend) == IF backend = "bokeh" THEN 18 ELSE 45

\* The lines of a text element: bokeh draws each parameter as a label of its
\* own, matplotlib the parameters of a dataset as one text.
LinesOf(backend, e) ==
    IF backend = "bokeh" THEN 1 ELSE FitNpars(e.name[1], nfits[e.name[1]])

\* The texts of a figure do not overlap: each lies below the one drawn
\* before it by at least the lines of that one.
TextsStack(f) ==
    \A i, j \in 1..Len(f.elements) :
        (i < j /\ f.elements[i].type = "text" /\ f.elements[j].type = "text") =>
            f.elements[j].offset >=
                f.elements[i].offset + LinesOf(f.backend, f.elements[i]) * LineOffset(f.backend)

\* C16: on every figure either engine has made, the text boxes of the fitted
\* datasets are stacked: no parameter line is closer to an earlier one than
\* the offset of a line, however many datasets are fitted.
C16_TextBoxesStackWithoutOverlap ==
    \A h \in 1..Len(figs) : TextsStack(figs[h])

----------------------------------------------------------------------------
(* C15 *)

\* The line drawn for the i-th user function is sampled on the grid
\* add_function sampled the function on, and lies within y_range as that
\* call left it.
DrawnAsAdded(e, i) ==
    /\ e.grid = fn_grids[i].grid
    /\ ArrayMin(e.mean) >= fn_grids[i].y_range[1] * (e.grid[3] - 1)
    /\ ArrayMax(e.mean) <= fn_grids[i].y_range[2] * (e.grid[3] - 1)

\* C15: every line a figure shows for a user function has the end points and
\* the number of points of the grid the function was sampled on when it was
\* added, and none of its values lies outside the y range of that moment.
C15_RenderGridIsAddGrid ==
    \A h \in 1..Len(figs), i \in 1..Len(fn_grids) :
        \A k \in 1..Len(figs[h].elements) :
            (figs[h].elements[k].type = "line"
                 /\ figs[h].elements[k].name = user_functions_names[i])
                => DrawnAsAdded(figs[h].elements[k], i)

----------------------------------------------------------------------------
(* C17 *)

\* What of a drawn element is not its y data.
NotYData(e) == <<e.type, e.panel, e.name, e.color, e.grid, e.offset>>

\* What of a figure is not its elements.
NotElements(f) ==
    <<f.backend, f.role, f.x_range, f.y_range, f.y_extra, f.residual_panel,
      f.yres_range, f.legend, f.children, Len(f.elements)>>

\* The band spans the line by the same amount above and below at every
\* point: its y data are the upper values followed by the lower ones
\* reversed, twice as many as the line has.
BandAroundLine(line, band) ==
    /\ Len(line.mean) = line.grid[3]
    /\ Len(band.upper) + Len(band.lower) = 2 * Len(line.mean)
    /\ Len(band.upper) = Len(band.lower)
    /\ \A i \in 1..Len(line.mean) :
           /\ band.upper[i] >= line.mean[i]
           /\ band.upper[i] - line.mean[i] = line.mean[i] - band.lower[i]

\* C17: a run of the update callback of the bokeh explorer changes the y data
\* of the kept line and of the kept band and nothing else: not their x grid,
\* no other element of any figure, no figure's ranges, nothing of the scene,
\* of the datasets' fits or of what is kept.
C17_UpdateOverwritesOnlyLineAndBand ==
    [][BkUpdateRuns =>
           /\ UNCHANGED <<sceneVars, datasetVars, linear_fit, mplfigure, mpl_gs,
                          bkfigure, bkres, plt_current, minmax_n>>
           /\ Len(figs') = Len(figs)
           /\ \A h \in 1..Len(figs) :
                  /\ NotElements(figs'[h]) = NotElements(figs[h])
                  /\ \A k \in 1..Len(figs[h].elements) :
                         IF h = linear_fit.fig /\ k \in {linear_fit.line, linear_fit.patches}
                         THEN NotYData(figs'[h].elements[k]) = NotYData(figs[h].elements[k])
                         ELSE figs'[h].elements[k] = figs[h].elements[k]
           /\ BandAroundLine(figs'[linear_fit.fig].elements[linear_fit.line],
                             figs'[linear_fit.fig].elements[linear_fit.patches])]_vars

C17_Witness ==
    /\ call.op = "bk_update" /\ call.args = <<6, 1, -1, 1, 1>>
    /\ linear_fit.set /\ linear_fit.fig # bkfigure
    /\ figs[linear_fit.fig].elements[linear_fit.line].mean[1]
           # figs[linear_fit.fig].elements[linear_fit.line].mean[NSample]
    /\ figs[linear_fit.fig].elements[linear_fit.patches].upper[NSample]
           > figs[linear_fit.fig].elements[linear_fit.line].mean[NSample]

----------------------------------------------------------------------------
(* C19 *)

\* C19: the list of datasets and the list of their colours are equally long,
\* and so are the lists of the user functions, of their parameters, of their
\* names and of their colours, as long as user_functions_count says.
C19_ParallelListsHaveEqualLength ==
    /\ Len(datasets_colors) = Len(datasets)
    /\ Len(user_functions) = user_functions_count
    /\ Len(user_functions_pars) = user_functions_count
    /\ Len(user_functions_names) = user_functions_count
    /\ Len(user_functions_colors) = user_functions_count

C19_Witness ==
    /\ call.op = "add_function" /\ call.ret # "ok"
    /\ palette_calls > PaletteLen
    /\ Len(datasets) = MaxDatasets
    /\ user_functions_count > PaletteLen

----------------------------------------------------------------------------
(* C18 *)

MplDrawOps == {"mpl_plot_dataset", "mpl_plot_function", "mpl_plot_fit_results_text_box"}
BkDrawOps == {"bk_plot_dataset", "bk_plot_function", "bk_plot_fit_results_text_box"}
DatasetDrawOps == {"mpl_plot_dataset", "bk_plot_dataset"}

\* The step is a call of a draw method that is given what it can draw: a
\* fitted dataset, or a function that returns.
DrawsWhatCanBeDrawn ==
    /\ call'.op \in MplDrawOps \cup BkDrawOps
    /\ IF call'.op \in {"mpl_plot_function", "bk_plot_function"}
       THEN call'.args[1] # "raises"
       ELSE nfits[call'.args[1]] > 0

\* The figure of the backend the step's draw method belongs to is missing
\* before the step.
FigureMissing ==
    IF call'.op \in MplDrawOps THEN mplfigure = 0 ELSE bkfigure = 0

\* The figure the step's draw method drew on exists after the step: the
\* residual figure for the residuals bokeh draws, the main one otherwise.
DrawnOnExists ==
    IF call'.op \in MplDrawOps THEN mplfigure' \in 1..Len(figs')
    ELSE IF call'.op = "bk_plot_dataset" /\ call'.args[2] THEN bkres' \in 1..Len(figs')
    ELSE bkfigure' \in 1..Len(figs')

\* C18: a draw method called while its backend has no figure makes the
\* figure, or the residual panel, and returns without an error; after any
\* draw method has returned, the figure it drew on exists.
C18_DrawMakesMissingFigure ==
    [][DrawsWhatCanBeDrawn =>
           /\ FigureMissing => call'.ret = "ok"
           /\ call'.ret = "ok" => DrawnOnExists]_vars

(* C20 *)

\* C20: whenever the show-residuals flag is true, the residual range has
\* been set, so the residual sub-panel is never made from an undefined
\* range; whichever of add_residuals and mpl_plot_dataset's lazy figure
\* construction set the flag, and in any order of fit, add_dataset and
\* draw calls.
C20_ResidualRangeSetWheneverShown ==
    show_residuals => yres_range # Undefined

----------------------------------------------------------------------------
(* C21 *)

\* The datasets of the scene that have at least one fit.
FittedDatasets ==
    {datasets[i] : i \in {j \in 1..Len(datasets) : nfits[datasets[j]] > 0}}

\* The figures a shown figure is made of: itself and, for a bokeh gridplot,
\* the figures it stacks.
PanelsOf(F, h) ==
    {h} \cup {F[h].children[k] : k \in 1..Len(F[h].children)}

\* The datasets whose residual points the figure with that handle shows.
ResidualsDrawn(F, h) ==
    UNION {{F[g].elements[k].name[1] :
                k \in {j \in 1..Len(F[g].elements) :
                           F[g].elements[j].type = "residuals"}} :
            g \in PanelsOf(F, h)}

\* The step is a show that populates a figure of the scene's engine while
\* the residuals are enabled.
PopulatesWithResiduals ==
    /\ call'.op = "show"
    /\ call'.args[2]
    /\ plot_engine \in {"bokeh", "mpl"}
    /\ show_residuals

\* The figure the engine of the scene populated in the step.
PopulatedFigure == IF plot_engine = "mpl" THEN mplfigure' ELSE bkfigure'

\* C21: a figure populated with residuals enabled shows residual points for
\* exactly the datasets of the scene that have a fit, and the populating
\* ends without an error (no residuals are read of a dataset that has no
\* fit); on the matplotlib and on the bokeh backend alike.
C21_ResidualsForExactlyTheFittedDatasets ==
    [][PopulatesWithResiduals =>
           /\ call'.ret = "ok"
           /\ ResidualsDrawn(figs', PopulatedFigure) = FittedDatasets]_vars

====
